---- MODULE Spec2Model ----
(***************************************************************************)
(* Model of the customer-support agent's response orchestration core:      *)
(*   - the tool gateway            (app/mcp_client.py, MCPClient._call_tool)*)
(*   - the fallback provider       (app/mcp_client.py, fetch and cache ops)*)
(*   - the conversation memory     (app/memory.py)                          *)
(*   - the response orchestrator   (app/agent.py, handle_query)             *)
(*                                                                         *)
(* A Python call either returns a value or raises: Returned(v) / Raised(m). *)
(* A dict is a record that holds exactly the keys the dict holds.           *)
(***************************************************************************)
EXTENDS Integers, Sequences, FiniteSets, TLC

VARIABLES
    \* ---- tool gateway (SpecGateway)
    gwIn,          \* the inputs of one _call_tool call: tool_name and the transport's behaviour
    gwOut,         \* its outcome, NoCall before the call
    \* ---- fallback provider (SpecProvider, Spec)
    remote,        \* the remote cache store behind redis-set-cache / redis-get-cache
    localCache,    \* MCPClient._local_cache
    prevOp,        \* the provider operation before the last one, when it was a cache_data
    lastOp,        \* the last provider operation: its arguments and its outcome
    latestWrite,   \* cache key -> the last cache_data call made for it, NoCall if none (SpecCache)
    \* ---- conversation memory (SpecMemory, Spec)
    maxTurns,      \* RedisConversationMemory._max_turns
    bucket,        \* session -> the stored list (oldest first)
    hasTtl,        \* session -> whether the key carries an expiry
    clock,         \* append_message calls made directly so far (their timestamp source)
    appended,      \* session -> entries pushed by append_message, in push order
    nCompleted,    \* session -> append_message calls that returned
    nAborted,      \* session -> append_message calls that raised
    lastAppend,    \* the last append_message call
    lastRead,      \* the last get_recent_messages call
    inflight,      \* process -> the append_message call it is in, and the store call it is at
    expiresIn,     \* session -> <<seconds until the store deletes the key>>, <<>> without expiry
    sinceAppend,   \* session -> <<seconds since append_message last pushed to it>>, <<>> if never
    nTicks,        \* passages of time so far
    \* ---- response orchestrator (Spec)
    hasApiKey,     \* whether a generation credential is configured
    req,           \* request slot -> the handle_query call in it: its position and locals
    nStarted,      \* handle_query calls started so far (the time of a call's appends)
    memFaults,     \* memory-store operations that raised under handle_query so far
    lastCall       \* (customer_id, query) -> what the last completed call for it did

gwVars   == <<gwIn, gwOut>>
provVars == <<remote, localCache, prevOp, lastOp, latestWrite>>
memVars  == <<maxTurns, bucket, hasTtl, clock, appended, nCompleted, nAborted,
              lastAppend, lastRead, inflight, expiresIn, sinceAppend, nTicks>>
orchVars == <<hasApiKey, req, nStarted, memFaults, lastCall>>
vars     == <<gwVars, provVars, memVars, orchVars>>

-----------------------------------------------------------------------------
(* Python values *)

None == "<None>"

Returned(v) == [raised |-> FALSE, value |-> v]
Raised(m)   == [raised |-> TRUE, exc |-> m]

\* dict.get(key): None when the key is missing
Get(d, key) == IF key \in DOMAIN d THEN d[key] ELSE None

\* truth value of a str-or-None
Truthy(x) == x # None /\ x # ""

\* result.get("success")
Success(env) == "success" \in DOMAIN env /\ env.success

-----------------------------------------------------------------------------
(* Tool gateway: MCPClient._load_tool_map, MCPClient._call_tool *)

\* A tool name is the sequence of its words and separators.
RecentOrdersTool    == <<"recent", "-", "orders">>
CustomerProfileTool == <<"customer", "-", "profile">>
RedisSetTool        == <<"redis", "-", "set", "-", "cache">>
RedisGetTool        == <<"redis", "-", "get", "-", "cache">>

\* a tool map keyed by the names as loaded
NormalizeNothing(name) == name

\* name.replace("_", "-")
Normalize(name) == [i \in DOMAIN name |-> IF name[i] = "_" THEN "-" ELSE name[i]]

Underscored(name) == [i \in DOMAIN name |-> IF name[i] = "-" THEN "_" ELSE name[i]]

\* tool_map of a loaded toolset (the sequence of its tools' names, <<>> for a
\* tool without a name): normalized name -> the tool, the last one loaded winning.
RECURSIVE LoadToolMap(_)
LoadToolMap(tools) ==
    IF tools = <<>> THEN <<>>
    ELSE LET rest == LoadToolMap(SubSeq(tools, 1, Len(tools) - 1))
             tool == tools[Len(tools)]
         IN  IF tool = <<>>
             THEN rest
             ELSE [n \in DOMAIN rest \cup {Normalize(tool)} |->
                     IF n = Normalize(tool) THEN tool ELSE rest[n]]

NotFoundError(tool_name) == <<"Tool '", tool_name, "' not found">>

\* tool_map = await self._load_tool_map(), when the load does not throw
ToolMapOf(gw) == LoadToolMap(gw.toolset)

\* the body of the try block
CallToolBody(tool_name, gw) ==
    IF gw.loadThrows THEN Raised(gw.loadMsg)
    ELSE LET tool_map == ToolMapOf(gw)
         IN  IF tool_name \notin DOMAIN tool_map
             THEN Returned([success |-> FALSE, error |-> NotFoundError(tool_name)])
             ELSE IF gw.callThrows THEN Raised(gw.callMsg)
             ELSE Returned([success |-> TRUE, data |-> gw.result])

\* whether the call reaches `await tool(**kwargs)`
ToolInvoked(tool_name, gw) ==
    ~gw.loadThrows /\ tool_name \in DOMAIN ToolMapOf(gw)

CallToolNoCatch(tool_name, gw) == CallToolBody(tool_name, gw)

\* _call_tool whose except branch leaves the message out
CallToolBareFailure(tool_name, gw) ==
    LET r == CallToolBody(tool_name, gw)
    IN  IF r.raised THEN Returned([success |-> FALSE]) ELSE r

\* try: ... except Exception as exc: return {"success": False, "error": str(exc)}
CallTool(tool_name, gw) ==
    LET r == CallToolBody(tool_name, gw)
    IN  IF r.raised THEN Returned([success |-> FALSE, error |-> r.exc]) ELSE r

-----------------------------------------------------------------------------
(* The transport under one gateway call *)

LoadError == "toolbox unreachable"
CallError == "tool call failed"

\* how the toolbox answers one _call_tool(tool, ...): the toolset it serves
\* (the tool under its '-' name, under its '_' name, or not at all), and
\* whether loading the toolset or invoking the tool throws
Transport(ts, lt, ct) == [toolset |-> ts, loadThrows |-> lt, callThrows |-> ct]

Transports(tool) ==
    { Transport(<<tool>>, FALSE, FALSE),
      Transport(<<Underscored(tool)>>, FALSE, FALSE),
      Transport(<<>>, FALSE, FALSE),
      Transport(<<tool>>, TRUE, FALSE),
      Transport(<<tool>>, FALSE, TRUE) }

\* the gateway inputs of a call under transport t to a tool that would return `result`
Gw(t, result) ==
    [toolset |-> t.toolset, loadThrows |-> t.loadThrows, callThrows |-> t.callThrows,
     loadMsg |-> LoadError, callMsg |-> CallError, result |-> result]

-----------------------------------------------------------------------------
(* Fallback provider: MCPClient.fetch_recent_orders .. get_cached_data *)

CustomerIds == {"A", "B"}
Queries     == {"q1", "q2"}

\* a cache key that leaves the customer out
CacheKeyNoCustomer(customer_id, user_query) ==
    <<"support", IF user_query = "q1" THEN "h1" ELSE "h2">>

\* hash(user_query)
Hash(q) == IF q = "q1" THEN "h1" ELSE "h2"

\* f"support:{customer_id}:{hash(user_query)}" if customer_id else f"support:{hash(user_query)}"
CacheKey(customer_id, user_query) ==
    IF Truthy(customer_id) THEN <<"support", customer_id, Hash(user_query)>>
    ELSE <<"support", Hash(user_query)>>

CacheKeys == { CacheKey(c, q) : c \in CustomerIds \cup {None, ""}, q \in Queries }

OrdersRows  == "orders rows"

\* a Python list among values that may also be mappings (records of their keys;
\* the empty mapping is the record with no key)
PyList(items) == [pylist |-> items]
IsList(x) == "pylist" \in DOMAIN x
EmptyDict == <<>>

\* what the customer-profile tool may return: rows, no row, a single mapping
ProfileResults ==
    { PyList(<< [id |-> "A", name |-> "Ann"], [id |-> "A", name |-> "Old Ann"] >>),
      PyList(<<>>),
      [id |-> "A", name |-> "Ann"],
      EmptyDict }
SetReply    == "OK"

MockOrders(customer_id) ==
    [success |-> TRUE,
     data |-> << [id |-> 1, customer_id |-> customer_id,
                  note |-> "Mock orders (toolbox unavailable)"] >>,
     source |-> "mock"]

\* fetch_recent_orders without the fallback
FetchRecentOrdersNoFallback(customer_id, t) ==
    CallTool(RecentOrdersTool, Gw(t, OrdersRows)).value

\* fetch_recent_orders whose mock record names a fixed customer
FetchRecentOrdersFixedMock(customer_id, t) ==
    LET result == CallTool(RecentOrdersTool, Gw(t, OrdersRows)).value
    IN  IF Success(result) THEN result ELSE MockOrders("A")

FetchRecentOrders(customer_id, t) ==
    LET result == CallTool(RecentOrdersTool, Gw(t, OrdersRows)).value
    IN  IF Success(result) THEN result ELSE MockOrders(customer_id)

MockProfile(customer_id) ==
    [success |-> TRUE,
     data |-> PyList(<< [id |-> customer_id, note |-> "Mock profile (toolbox unavailable)"] >>),
     source |-> "mock"]

FetchCustomerProfile(customer_id, t, rows) ==
    LET result == CallTool(CustomerProfileTool, Gw(t, rows)).value
    IN  IF Success(result) THEN result ELSE MockProfile(customer_id)

\* the customer_profile tool that returns the data as the provider gave it
CustomerProfileAsFetched(customer_id, t, rows) ==
    Returned(FetchCustomerProfile(customer_id, t, rows).data)

\* the customer_profile tool of the agent: fetch, then
\* data = result.get("data") or {}; a non-empty list gives its first element
CustomerProfile(customer_id, t, rows) ==
    LET result == FetchCustomerProfile(customer_id, t, rows)
    IN  IF ~Success(result)
        THEN Raised(IF "error" \in DOMAIN result THEN result.error ELSE "Unknown error")
        ELSE LET got  == result.data
                 data == IF got = PyList(<<>>) \/ got = EmptyDict THEN EmptyDict ELSE got
             IN  Returned(IF IsList(data) /\ data.pylist # <<>> THEN data.pylist[1] ELSE data)

MockSearch(query) ==
    [success |-> TRUE,
     data |-> [query |-> query,
               results |-> << [title   |-> <<"Mock information about ", query>>,
                               snippet |-> <<"This is placeholder data for '", query, "'.">>,
                               url     |-> "https://example.com"] >>],
     source |-> "mock"]

SearchJson == "tavily json"

\* web_search without its try/except around the POST
WebSearchNoCatch(query, tavily_key, postOk) ==
    IF tavily_key
    THEN IF postOk THEN [success |-> TRUE, data |-> SearchJson, source |-> "tavily"]
         ELSE Raised("HTTPError")
    ELSE MockSearch(query)

\* web_search: tavily_key is whether TAVILY_API_KEY is set, postOk whether the
\* POST and raise_for_status() and resp.json() all succeed
WebSearch(query, tavily_key, postOk) ==
    IF tavily_key
    THEN IF postOk THEN [success |-> TRUE, data |-> SearchJson, source |-> "tavily"]
         ELSE MockSearch(query)
    ELSE MockSearch(query)

\* a cache_data that also pushes the value to the remote store when its tool call failed
RemoteAfterSetAlways(store, key, value, t) == [store EXCEPT ![key] = value]

\* a redis-set-cache tool that keeps the entry a key already has
RemoteAfterSetIfAbsent(store, key, value, t) ==
    IF ToolInvoked(RedisSetTool, Gw(t, SetReply)) /\ ~t.callThrows /\ store[key] = None
    THEN [store EXCEPT ![key] = value]
    ELSE store

\* the remote store after the redis-set-cache tool call of cache_data
RemoteAfterSet(store, key, value, t) ==
    IF ToolInvoked(RedisSetTool, Gw(t, SetReply)) /\ ~t.callThrows
    THEN [store EXCEPT ![key] = value]
    ELSE store

LocalCached == [success |-> TRUE, message |-> "Cached locally", storage |-> "local"]

CacheData(key, value, t) ==
    LET result == CallTool(RedisSetTool, Gw(t, SetReply)).value
    IN  IF Success(result) THEN result ELSE LocalCached

\* self._local_cache[key] = value
DictSet(d, key, value) ==
    [k \in DOMAIN d \cup {key} |-> IF k = key THEN value ELSE d[k]]

\* cache_data that reports the local write and does not make it
LocalAfterCacheDataNoWrite(cache, key, value, t) == cache

\* self._local_cache after cache_data
LocalAfterCacheData(cache, key, value, t) ==
    LET result == CallTool(RedisSetTool, Gw(t, SetReply)).value
    IN  IF Success(result) THEN cache ELSE DictSet(cache, key, value)

\* get_cached_data that propagates the gateway envelope without the local lookup
GetCachedDataNoLocal(key, cache, store, t) ==
    CallTool(RedisGetTool, Gw(t, store[key])).value

\* get_cached_data that looks in the in-process mapping before asking the remote store
GetCachedDataLocalFirst(key, cache, store, t) ==
    IF key \in DOMAIN cache
    THEN [success |-> TRUE, data |-> cache[key], storage |-> "local"]
    ELSE CallTool(RedisGetTool, Gw(t, store[key])).value

GetCachedData(key, cache, store, t) ==
    LET result == CallTool(RedisGetTool, Gw(t, store[key])).value
    IN  IF Success(result) /\ Get(result, "data") # None THEN result
        ELSE IF key \in DOMAIN cache
             THEN [success |-> TRUE, data |-> cache[key], storage |-> "local"]
             ELSE result

\* whether the remote tool call of an operation under t fails
RemoteFails(tool, t) == ~Success(CallTool(tool, Gw(t, SetReply)).value)

-----------------------------------------------------------------------------
(* Conversation memory: RedisConversationMemory *)

AnonymousSession == "anonymous-session"

\* the session keys that name a bucket
SessionKeys == {"s1", "s2"} \cup CustomerIds \cup {AnonymousSession}
Roles       == {"user", "assistant"}

\* limit=None of get_recent_messages; an integer limit n is <<n>>
NoLimit == <<>>

\* json.dumps({"role": ..., "content": ..., "timestamp": ...})
Dumps(role, content, timestamp) ==
    <<"json", [role |-> role, content |-> content, timestamp |-> timestamp]>>

\* a stored string that is no JSON document
Garbage == <<"garbage">>

\* json.loads(entry)
Loads(raw) == IF raw[1] = "json" THEN Returned(raw[2]) ELSE Raised("JSONDecodeError")

\* Redis RPUSH
RPush(list, raw) == Append(list, raw)

\* the elements start..stop of a Redis list (0-based, inclusive, negative = from the end)
LRange(list, start, stop) ==
    LET n  == Len(list)
        s0 == IF start < 0 THEN start + n ELSE start
        s  == IF s0 < 0 THEN 0 ELSE s0
        e0 == IF stop < 0 THEN stop + n ELSE stop
        e  == IF e0 >= n THEN n - 1 ELSE e0
    IN  IF s > e \/ s >= n THEN <<>> ELSE SubSeq(list, s + 1, e + 1)

\* an LTRIM that removes nothing
LTrimKeepAll(list, start, stop) == list

\* Redis LTRIM keeps LRange(start, stop)
LTrim(list, start, stop) == LRange(list, start, stop)

\* where a store operation of append_message raises, if any
AppendFailures == {"none", "rpush", "ltrim", "expire"}

\* append_message without the ltrim
BucketAfterAppendNoTrim(list, raw, max_turns, f) ==
    IF f = "rpush" THEN list ELSE RPush(list, raw)

\* append_message that trims to max_turns entries instead of 2 * max_turns
BucketAfterAppendHalfTrim(list, raw, max_turns, f) ==
    IF f = "rpush" THEN list
    ELSE IF f = "ltrim" THEN RPush(list, raw)
    ELSE LTrim(RPush(list, raw), -max_turns, -1)

\* the stored list after append_message whose store operation f raises
BucketAfterAppend(list, raw, max_turns, f) ==
    IF f = "rpush" THEN list
    ELSE IF f = "ltrim" THEN RPush(list, raw)
    ELSE LTrim(RPush(list, raw), -(max_turns * 2), -1)

\* limit = limit or self._max_turns
LimitOr(limit, max_turns) ==
    IF limit = NoLimit \/ limit = <<0>> THEN max_turns ELSE limit[1]

\* the messages list built from raw_entries, entries that fail to parse skipped
RECURSIVE ParseAll(_)
ParseAll(raw_entries) ==
    IF raw_entries = <<>> THEN <<>>
    ELSE LET r == Loads(Head(raw_entries))
         IN  IF r.raised THEN ParseAll(Tail(raw_entries))
             ELSE <<r.value>> \o ParseAll(Tail(raw_entries))

\* get_recent_messages that reads the oldest entries instead of the newest
GetRecentMessagesOldest(list, limit, max_turns, lrangeFails) ==
    IF lrangeFails THEN Raised("RedisError")
    ELSE Returned(ParseAll(LRange(list, 0, LimitOr(limit, max_turns) * 2 - 1)))

\* get_recent_messages that lets the JSONDecodeError of an entry out
GetRecentMessagesNoSkip(list, limit, max_turns, lrangeFails) ==
    LET raw_entries == LRange(list, -(LimitOr(limit, max_turns) * 2), -1)
    IN  IF lrangeFails THEN Raised("RedisError")
        ELSE IF \E i \in DOMAIN raw_entries : Loads(raw_entries[i]).raised
             THEN Raised("JSONDecodeError")
             ELSE Returned(ParseAll(raw_entries))

GetRecentMessages(list, limit, max_turns, lrangeFails) ==
    IF lrangeFails THEN Raised("RedisError")
    ELSE Returned(ParseAll(LRange(list, -(LimitOr(limit, max_turns) * 2), -1)))

-----------------------------------------------------------------------------
(* Initial values of each component *)

NoCall == [op |-> "none"]

InitGwIdle == gwIn = NoCall /\ gwOut = NoCall

\* nothing cached remotely, and self._local_cache = {}
InitProv ==
    /\ remote = [k \in CacheKeys |-> None]
    /\ localCache = <<>>
    /\ prevOp = NoCall
    /\ lastOp = NoCall
    /\ latestWrite = [k \in CacheKeys |-> NoCall]

\* the processes that call append_message step by step (SpecAppends)
MaxAppenders == 2
Appenders == 1..MaxAppenders

NoAppend == [pc |-> "idle"]

\* no expiry set on a key; no append made to a session
NoTime == <<>>

InitMemWith(T) ==
    /\ maxTurns = T
    /\ bucket = [s \in SessionKeys |-> <<>>]
    /\ hasTtl = [s \in SessionKeys |-> FALSE]
    /\ clock = 0
    /\ appended = [s \in SessionKeys |-> <<>>]
    /\ nCompleted = [s \in SessionKeys |-> 0]
    /\ nAborted = [s \in SessionKeys |-> 0]
    /\ lastAppend = NoCall
    /\ lastRead = NoCall
    /\ inflight = [p \in Appenders |-> NoAppend]
    /\ expiresIn = [s \in SessionKeys |-> NoTime]
    /\ sinceAppend = [s \in SessionKeys |-> NoTime]
    /\ nTicks = 0

Reqs == {1, 2}

NoEnv == [absent |-> TRUE]

\* how often a call has invoked each collaborator: get_cached_data (get),
\* get_recent_messages (read), Runner.run (run), cache_data (set), append_message (append)
NoCalls == [get |-> 0, read |-> 0, run |-> 0, set |-> 0, append |-> 0]

\* one more invocation of op
Called(calls, op) == [calls EXCEPT ![op] = @ + 1]

\* the slots whose calls have made their cache write (kept in wroteAfter of a
\* slot at the moment of its own cache write)
Wrote == { r \in Reqs : \E i \in DOMAIN req[r].trace : req[r].trace[i] = "cache_write" }

\* the steps a call has taken so far, in the order it took them, are kept in
\* the slot's trace: cache_read, memory_read, generation, cache_write,
\* append_user, append_assistant, return
Step(r, step) == Append(req[r].trace, step)

\* a slot with no call in it. Besides the locals of handle_query a slot records
\* what the call did: gen (whether _generate_response ran Runner.run, returned
\* the no-credential string, or was not reached), readRaised (get_recent_messages
\* raised), memRaised (an append_message raised), cacheAtMem (the two caches when
\* _append_memory was entered) and prior (lastCall of its pair when it started).
IdleReq ==
    [pc |-> "idle", user_query |-> None, customer_id |-> None, session_id |-> None,
     session_key |-> None, cache_key |-> <<>>, cached_response |-> NoEnv,
     gen |-> "none", genRaised |-> FALSE, readRaised |-> FALSE, prompt |-> NoEnv,
     response |-> None,
     set_result |-> NoEnv, memRaised |-> FALSE, cacheAtMem |-> NoEnv,
     prior |-> NoEnv, result |-> NoEnv, calls |-> NoCalls, trace |-> <<>>,
     wroteAfter |-> {}, readAfter |-> {}, localAtRead |-> FALSE]

Pairs == (CustomerIds \cup {None, ""}) \X Queries

InitOrchIdle ==
    /\ hasApiKey = FALSE
    /\ req = [r \in Reqs |-> IdleReq]
    /\ nStarted = 0
    /\ memFaults = 0
    /\ lastCall = [p \in Pairs |-> NoCall]

-----------------------------------------------------------------------------
(* SpecGateway: _call_tool on every input *)

GwToolNames == {RecentOrdersTool, Underscored(RecentOrdersTool), RedisGetTool}
GwToolsets ==
    { <<>>, <<RecentOrdersTool>>, <<Underscored(RecentOrdersTool)>>,
      <<RedisGetTool, RecentOrdersTool>>, <<<<>>, Underscored(RedisGetTool)>>,
      <<Underscored(RecentOrdersTool), RecentOrdersTool>> }
GwResults == {None, "rows"}

InitGateway ==
    /\ gwIn \in [tool_name : GwToolNames, toolset : GwToolsets,
                 loadThrows : BOOLEAN, callThrows : BOOLEAN,
                 loadMsg : {LoadError}, callMsg : {CallError, ""}, result : GwResults]
    /\ gwOut = NoCall
    /\ InitProv /\ InitMemWith(1) /\ InitOrchIdle

\* result = await self._call_tool(tool_name, **kwargs)
DoCallTool ==
    /\ gwOut = NoCall
    /\ gwOut' = [op |-> "_call_tool",
                 outcome |-> CallTool(gwIn.tool_name, gwIn),
                 invoked |-> IF ToolInvoked(gwIn.tool_name, gwIn)
                             THEN <<ToolMapOf(gwIn)[gwIn.tool_name]>> ELSE <<>>]
    /\ UNCHANGED <<gwIn, provVars, memVars, orchVars>>

NextGateway == DoCallTool

SpecGateway == InitGateway /\ [][NextGateway]_vars

-----------------------------------------------------------------------------
(* SpecProvider: the five fallback-provider operations, called in any order *)
(* under any behaviour of the toolbox, and the remote entries' expiry       *)

ProvKeys   == {CacheKey("A", "q1"), CacheKey(None, "q1")}
ProvValues == {"", "v1"}

InitProvider == InitGwIdle /\ InitProv /\ InitMemWith(1) /\ InitOrchIdle

RecordOp(op) ==
    /\ lastOp' = op
    /\ prevOp' = IF lastOp.op = "cache_data"
                 THEN [op |-> "cache_data", key |-> lastOp.key, value |-> lastOp.value,
                       remoteFailed |-> lastOp.remoteFailed]
                 ELSE NoCall
    /\ UNCHANGED <<gwVars, memVars, orchVars>>

Record(op) == RecordOp(op) /\ UNCHANGED latestWrite

DoCacheData(key, value, t) ==
    /\ remote' = RemoteAfterSet(remote, key, value, t)
    /\ localCache' = LocalAfterCacheData(localCache, key, value, t)
    /\ Record([op |-> "cache_data", key |-> key, value |-> value,
               remoteFailed |-> RemoteFails(RedisSetTool, t),
               result |-> CacheData(key, value, t)])

DoGetCachedData(key, t) ==
    /\ UNCHANGED <<remote, localCache>>
    /\ Record([op |-> "get_cached_data", key |-> key,
               remoteFailed |-> RemoteFails(RedisGetTool, t),
               remoteData |-> remote[key],
               gateway |-> CallTool(RedisGetTool, Gw(t, remote[key])).value,
               result |-> GetCachedData(key, localCache, remote, t)])

DoFetchRecentOrders(customer_id, t) ==
    /\ UNCHANGED <<remote, localCache>>
    /\ Record([op |-> "fetch_recent_orders", customer_id |-> customer_id,
               remoteFailed |-> RemoteFails(RecentOrdersTool, t),
               result |-> FetchRecentOrders(customer_id, t)])

DoFetchCustomerProfile(customer_id, t, rows) ==
    /\ UNCHANGED <<remote, localCache>>
    /\ Record([op |-> "fetch_customer_profile", customer_id |-> customer_id,
               remoteFailed |-> RemoteFails(CustomerProfileTool, t),
               result |-> FetchCustomerProfile(customer_id, t, rows)])

\* the agent's customer_profile tool is called
DoCustomerProfile(customer_id, t, rows) ==
    /\ UNCHANGED <<remote, localCache>>
    /\ Record([op |-> "customer_profile", customer_id |-> customer_id,
               remoteFailed |-> RemoteFails(CustomerProfileTool, t),
               rows |-> rows,
               envelope |-> FetchCustomerProfile(customer_id, t, rows),
               outcome |-> CustomerProfile(customer_id, t, rows)])

DoWebSearch(query, tavily_key, postOk) ==
    /\ UNCHANGED <<remote, localCache>>
    /\ Record([op |-> "web_search", query |-> query, tavily_key |-> tavily_key,
               remoteFailed |-> tavily_key /\ ~postOk,
               result |-> WebSearch(query, tavily_key, postOk)])

\* the TTL of a remote entry (ttl=3600 of cache_data) runs out
RemoteExpire(key) ==
    /\ remote[key] # None
    /\ remote' = [remote EXCEPT ![key] = None]
    /\ UNCHANGED <<localCache, prevOp, lastOp, latestWrite, gwVars, memVars, orchVars>>

NextProvider ==
    \/ \E key \in ProvKeys, value \in ProvValues, t \in Transports(RedisSetTool) :
          DoCacheData(key, value, t)
    \/ \E key \in ProvKeys, t \in Transports(RedisGetTool) : DoGetCachedData(key, t)
    \/ \E c \in CustomerIds, t \in Transports(RecentOrdersTool) : DoFetchRecentOrders(c, t)
    \/ \E c \in CustomerIds, t \in Transports(CustomerProfileTool), rows \in ProfileResults :
          DoFetchCustomerProfile(c, t, rows)
    \/ \E c \in CustomerIds, t \in Transports(CustomerProfileTool), rows \in ProfileResults :
          DoCustomerProfile(c, t, rows)
    \/ \E q \in Queries, k \in BOOLEAN, ok \in BOOLEAN : DoWebSearch(q, k, ok)
    \/ \E key \in ProvKeys : RemoteExpire(key)

SpecProvider == InitProvider /\ [][NextProvider]_vars

-----------------------------------------------------------------------------
(* SpecMemory: append_message, get_recent_messages and clear on a session, *)
(* every store operation free to raise                                     *)

MaxTurns   == 2
MaxAppends == 3
MaxLimit   == 2
TtlSeconds == 86400

MemSessions == {"s1"}
MemContents == {"hello"}
Limits      == {NoLimit} \cup { <<n>> : n \in 0..MaxLimit }

InitMemory ==
    /\ InitGwIdle /\ InitProv /\ InitOrchIdle
    /\ \E T \in 0..MaxTurns : InitMemWith(T)

\* the store under append_message(session_id, role, content), its store
\* operation f raising: rpush, ltrim, and expire when self._ttl is set
\* (timestamp is the value of datetime.now(timezone.utc) in the call)
AppendStore(session_id, role, content, timestamp, f) ==
    /\ bucket' = [bucket EXCEPT ![session_id] =
                    BucketAfterAppend(@, Dumps(role, content, timestamp), maxTurns, f)]
    /\ hasTtl' = [hasTtl EXCEPT ![session_id] = IF f = "none" /\ TtlSeconds # 0 THEN TRUE ELSE @]
    /\ expiresIn' = [expiresIn EXCEPT ![session_id] =
                       IF f = "none" /\ TtlSeconds # 0 THEN <<TtlSeconds>> ELSE @]
    /\ sinceAppend' = [sinceAppend EXCEPT ![session_id] = IF f = "rpush" THEN @ ELSE <<0>>]
    /\ UNCHANGED <<maxTurns, inflight, nTicks>>

\* await memory.append_message(session_id, role, content), with the record of the call
AppendMessage(session_id, role, content, f) ==
    /\ clock' = clock + 1
    /\ AppendStore(session_id, role, content, clock + 1, f)
    /\ appended' = [appended EXCEPT ![session_id] =
                      IF f = "rpush" THEN @
                      ELSE Append(@, [role |-> role, content |-> content,
                                      timestamp |-> clock + 1])]
    /\ nCompleted' = [nCompleted EXCEPT ![session_id] = IF f = "none" THEN @ + 1 ELSE @]
    /\ nAborted' = [nAborted EXCEPT ![session_id] = IF f = "none" THEN @ ELSE @ + 1]
    /\ lastAppend' = [op |-> "append_message", session_id |-> session_id, failed |-> f]
    /\ UNCHANGED lastRead

\* await memory.get_recent_messages(session_id, limit)
ReadMessages(session_id, limit, lrangeFails) ==
    /\ lastRead' = [op |-> "get_recent_messages", session_id |-> session_id, limit |-> limit,
                    nCompleted |-> nCompleted[session_id], nAborted |-> nAborted[session_id],
                    appended |-> appended[session_id],
                    outcome |-> GetRecentMessages(bucket[session_id], limit, maxTurns,
                                                  lrangeFails)]
    /\ UNCHANGED <<maxTurns, bucket, hasTtl, clock, appended, nCompleted, nAborted, lastAppend,
                   inflight, expiresIn, sinceAppend, nTicks>>

\* await memory.clear(session_id)
Clear(session_id) ==
    /\ bucket[session_id] # <<>>
    /\ bucket' = [bucket EXCEPT ![session_id] = <<>>]
    /\ hasTtl' = [hasTtl EXCEPT ![session_id] = FALSE]
    /\ appended' = [appended EXCEPT ![session_id] = <<>>]
    /\ nCompleted' = [nCompleted EXCEPT ![session_id] = 0]
    /\ nAborted' = [nAborted EXCEPT ![session_id] = 0]
    /\ expiresIn' = [expiresIn EXCEPT ![session_id] = NoTime]
    /\ sinceAppend' = [sinceAppend EXCEPT ![session_id] = NoTime]
    /\ UNCHANGED <<maxTurns, clock, lastAppend, lastRead, inflight, nTicks>>

NextMemory ==
    \/ \E s \in MemSessions, role \in Roles, c \in MemContents, f \in AppendFailures :
          /\ clock < MaxAppends
          /\ AppendMessage(s, role, c, f)
          /\ UNCHANGED <<gwVars, provVars, orchVars>>
    \/ \E s \in MemSessions, l \in Limits, fails \in BOOLEAN :
          ReadMessages(s, l, fails) /\ UNCHANGED <<gwVars, provVars, orchVars>>
    \/ \E s \in MemSessions : Clear(s) /\ UNCHANGED <<gwVars, provVars, orchVars>>

SpecMemory == InitMemory /\ [][NextMemory]_vars

-----------------------------------------------------------------------------
(* SpecStored: get_recent_messages on a stored list that other writers of *)
(* the Redis key may have put strings into that are not JSON               *)

MaxStored == 4

\* what a stored list can hold: two entries of append_message, one string that is no JSON
StoredEntries == { Dumps("user", "hello", 1), Dumps("assistant", "hi", 2), Garbage }

StoredLists == UNION { [1..n -> StoredEntries] : n \in 0..MaxStored }

InitStored ==
    /\ InitGwIdle /\ InitProv /\ InitOrchIdle
    /\ maxTurns \in 1..MaxTurns
    /\ bucket \in { [s \in SessionKeys |-> IF s \in MemSessions THEN l ELSE <<>>] :
                    l \in StoredLists }
    /\ hasTtl = [s \in SessionKeys |-> FALSE]
    /\ clock = 0
    /\ appended = [s \in SessionKeys |-> <<>>]
    /\ nCompleted = [s \in SessionKeys |-> 0]
    /\ nAborted = [s \in SessionKeys |-> 0]
    /\ lastAppend = NoCall
    /\ lastRead = NoCall
    /\ inflight = [p \in Appenders |-> NoAppend]
    /\ expiresIn = [s \in SessionKeys |-> NoTime]
    /\ sinceAppend = [s \in SessionKeys |-> NoTime]
    /\ nTicks = 0

NextStored ==
    \E s \in MemSessions, l \in Limits :
        ReadMessages(s, l, FALSE) /\ UNCHANGED <<gwVars, provVars, orchVars>>

SpecStored == InitStored /\ [][NextStored]_vars

-----------------------------------------------------------------------------
(* Response orchestrator: EnhancedSupportAgent.handle_query *)

\* _conversation_key that prefers customer_id to session_id
ConversationKeyCustomerFirst(customer_id, session_id) ==
    IF Truthy(customer_id) THEN customer_id
    ELSE IF Truthy(session_id) THEN session_id
    ELSE AnonymousSession

\* _conversation_key: session_id or customer_id or "anonymous-session"
ConversationKey(customer_id, session_id) ==
    IF Truthy(session_id) THEN session_id
    ELSE IF Truthy(customer_id) THEN customer_id
    ELSE AnonymousSession

\* str.title() of a role
Title(role) ==
    IF role = "user" THEN "User" ELSE IF role = "assistant" THEN "Assistant" ELSE "Unknown"

\* _build_llm_prompt: the three fixed parts, and "Recent context:" when there are entries
BuildLlmPrompt(user_query, customer_id, memory_entries) ==
    [customer |-> IF Truthy(customer_id) THEN customer_id ELSE "unknown",
     asked    |-> user_query,
     hint     |-> "If helpful, call tools to fetch profile, orders, or cached responses before replying.",
     context  |-> [i \in DOMAIN memory_entries |->
                     <<Title(Get(memory_entries[i], "role")),
                       Get(memory_entries[i], "content")>>]]

NoKeyFallback == "I've gathered some information for you. How else can I help?"
DefaultReply  == "I'm here to help! What else can I assist you with?"

\* _generate_fallback_response(context)
GenerateFallbackResponse(source) ==
    CASE source = "database" ->
           "I found your order information. How can I help you with your orders?"
      [] source = "web_search" ->
           "I've looked up information about your query. What specific aspect would you like to know more about?"
      [] source = "cache" -> "Based on our previous discussions, here's what I can tell you."
      [] source = "agent" ->
           "I'll help you with that. Let me know if you need more specific information."
      [] OTHER -> DefaultReply

\* what Runner.run does: raise, or return a final_output (None, "", a text)
GenOutcomes ==
    { Raised("generation failed"), Returned(None), Returned(""), Returned("g1") }

\* _generate_response that lets a failure of Runner.run propagate
FinalTextNoCatch(run) ==
    IF run.raised THEN run
    ELSE Returned(IF Truthy(run.value) THEN run.value ELSE DefaultReply)

\* _generate_response that answers a failed run with the "cache" tag's string
FinalTextCacheTag(run) ==
    IF run.raised THEN Returned(GenerateFallbackResponse("cache"))
    ELSE Returned(IF Truthy(run.value) THEN run.value ELSE DefaultReply)

\* _generate_response that returns final_output as it is
FinalTextNoDefault(run) ==
    IF run.raised THEN Returned(GenerateFallbackResponse("agent")) ELSE run

\* try: result = await Runner.run(...); return result.final_output or "..."
\* except Exception: return self._generate_fallback_response({"source": "agent"})
FinalText(run) ==
    IF run.raised THEN Returned(GenerateFallbackResponse("agent"))
    ELSE Returned(IF Truthy(run.value) THEN run.value ELSE DefaultReply)

\* the memory read of _generate_response without its try/except
MemoryEntriesNoCatch(read) == read

\* try: memory_entries = await self.memory.get_recent_messages(session_key)
\* except Exception: memory_entries = []
MemoryEntries(read) == IF read.raised THEN Returned(<<>>) ELSE read

\* _append_memory without its try/except
AfterAppendFailureRaise == "raise"

\* _append_memory: except Exception: return
AfterAppendFailure == "return"

\* a hit test that never hits
IsCacheHitNever(cached_response) == FALSE

\* cached_response.get("success") and cached_response.get("data")
IsCacheHit(cached_response) ==
    Success(cached_response) /\ Truthy(Get(cached_response, "data"))

\* a hit envelope that reports the agent as its source
HitEnvelopeAsAgent(user_query, cached_response) ==
    [source |-> "agent", response |-> cached_response.data, cached |-> FALSE,
     user_query |-> user_query]

HitEnvelope(user_query, cached_response) ==
    [source |-> "cache", response |-> cached_response.data, cached |-> TRUE,
     user_query |-> user_query]

\* a miss envelope that reports the cache as its source
MissEnvelopeCached(user_query, intelligent_response) ==
    [source |-> "cache", response |-> intelligent_response, cached |-> TRUE,
     user_query |-> user_query]

\* a miss envelope that carries the query in place of the generated text
MissEnvelopeEcho(user_query, intelligent_response) ==
    [source |-> "agent", response |-> user_query, cached |-> FALSE,
     user_query |-> user_query]

MissEnvelope(user_query, intelligent_response) ==
    [source |-> "agent", response |-> intelligent_response, cached |-> FALSE,
     user_query |-> user_query]

-----------------------------------------------------------------------------
(* Spec: handle_query calls, one at a time, under any behaviour of the     *)
(* toolbox, the generation provider and the memory store                   *)

MaxRequests   == 2
MaxMemFaults  == 1
AgentMaxTurns == 1

SeqReqs       == {1}
SpecQueries   == {"q1"}
SpecCustomers == {None, "A"}
SpecSessions  == {None}

InitOrch ==
    /\ hasApiKey \in BOOLEAN
    /\ req = [r \in Reqs |-> IdleReq]
    /\ nStarted = 0
    /\ memFaults = 0
    /\ lastCall = [p \in Pairs |-> NoCall]

Init == InitGwIdle /\ InitProv /\ InitMemWith(AgentMaxTurns) /\ InitOrch

Set(r, fields) ==
    req' = [req EXCEPT ![r] = [f \in DOMAIN @ |-> IF f \in DOMAIN fields THEN fields[f] ELSE @[f]]]

\* a raised exception leaves handle_query
Fail(r, exc) == Set(r, [pc |-> "done", result |-> Raised(exc)])

\* handle_query(user_query, customer_id, session_id) is called
Start(r, user_query, customer_id, session_id) ==
    /\ req[r].pc = "idle"
    /\ nStarted < MaxRequests
    /\ nStarted' = nStarted + 1
    /\ Set(r, [pc |-> "cache_get", user_query |-> user_query, customer_id |-> customer_id,
               session_id |-> session_id,
               session_key |-> ConversationKey(customer_id, session_id),
               cache_key |-> CacheKey(customer_id, user_query),
               prior |-> lastCall[<<customer_id, user_query>>]])
    /\ UNCHANGED <<hasApiKey, memFaults, lastCall, gwVars, provVars, memVars>>

\* cached_response = await self.mcp_client.get_cached_data(cache_key)
CacheGet(r, t) ==
    /\ req[r].pc = "cache_get"
    /\ LET cached_response == GetCachedData(req[r].cache_key, localCache, remote, t)
       IN  IF IsCacheHit(cached_response)
           THEN Set(r, [pc |-> "mem_user", cached_response |-> cached_response,
                        response |-> cached_response.data,
                        calls |-> Called(req[r].calls, "get"),
                        trace |-> Step(r, "cache_read"), readAfter |-> Wrote,
                        localAtRead |-> req[r].cache_key \in DOMAIN localCache,
                        cacheAtMem |-> [remote |-> remote, localCache |-> localCache]])
           ELSE Set(r, [pc |-> "generate", cached_response |-> cached_response,
                        calls |-> Called(req[r].calls, "get"),
                        trace |-> Step(r, "cache_read"), readAfter |-> Wrote,
                        localAtRead |-> req[r].cache_key \in DOMAIN localCache])
    /\ UNCHANGED <<hasApiKey, nStarted, memFaults, lastCall, gwVars, provVars, memVars>>

\* _generate_response: no credential, return the fixed string
GenNoKey(r) ==
    /\ req[r].pc = "generate"
    /\ ~hasApiKey
    /\ Set(r, [pc |-> "cache_set", gen |-> "nokey", response |-> NoKeyFallback])
    /\ UNCHANGED <<hasApiKey, nStarted, memFaults, lastCall, gwVars, provVars, memVars>>

\* _generate_response: read the memory and build the prompt
GenReadMemory(r, lrangeFails) ==
    /\ req[r].pc = "generate"
    /\ hasApiKey
    /\ lrangeFails => memFaults < MaxMemFaults
    /\ memFaults' = IF lrangeFails THEN memFaults + 1 ELSE memFaults
    /\ LET read == GetRecentMessages(bucket[req[r].session_key], NoLimit, maxTurns,
                                     lrangeFails)
           memory_entries == MemoryEntries(read)
       IN  IF memory_entries.raised
           THEN Fail(r, memory_entries.exc)
           ELSE Set(r, [pc |-> "run", readRaised |-> read.raised,
                        calls |-> Called(req[r].calls, "read"),
                        trace |-> Step(r, "memory_read"),
                        prompt |-> BuildLlmPrompt(req[r].user_query, req[r].customer_id,
                                                  memory_entries.value)])
    /\ UNCHANGED <<hasApiKey, nStarted, lastCall, gwVars, provVars, memVars>>

\* _generate_response: result = await Runner.run(self.agent, input=prompt)
GenRun(r, run) ==
    /\ req[r].pc = "run"
    /\ LET text == FinalText(run)
       IN  IF text.raised
           THEN Set(r, [pc |-> "done", gen |-> "run", genRaised |-> run.raised,
                        calls |-> Called(req[r].calls, "run"),
                        trace |-> Step(r, "generation"), result |-> text])
           ELSE Set(r, [pc |-> "cache_set", gen |-> "run", genRaised |-> run.raised,
                        calls |-> Called(req[r].calls, "run"),
                        trace |-> Step(r, "generation"), response |-> text.value])
    /\ UNCHANGED <<hasApiKey, nStarted, memFaults, lastCall, gwVars, provVars, memVars>>

\* await self.mcp_client.cache_data(cache_key, intelligent_response)
CacheSet(r, t) ==
    /\ req[r].pc = "cache_set"
    /\ remote' = RemoteAfterSet(remote, req[r].cache_key, req[r].response, t)
    /\ localCache' = LocalAfterCacheData(localCache, req[r].cache_key, req[r].response, t)
    /\ Set(r, [pc |-> "mem_user", calls |-> Called(req[r].calls, "set"),
               trace |-> Step(r, "cache_write"), wroteAfter |-> Wrote,
               set_result |-> CacheData(req[r].cache_key, req[r].response, t),
               cacheAtMem |-> [remote |-> remote', localCache |-> localCache']])
    /\ UNCHANGED <<hasApiKey, nStarted, memFaults, lastCall, prevOp, lastOp, latestWrite,
                   gwVars, memVars>>

\* _append_memory: await self.memory.append_message(session_key, "user", user_query)
MemAppendUser(r, f) ==
    /\ req[r].pc = "mem_user"
    /\ f # "none" => memFaults < MaxMemFaults
    /\ memFaults' = IF f # "none" THEN memFaults + 1 ELSE memFaults
    /\ AppendStore(req[r].session_key, "user", req[r].user_query, nStarted, f)
    /\ IF f = "none"
       THEN Set(r, [pc |-> "mem_asst", calls |-> Called(req[r].calls, "append"),
                    trace |-> Step(r, "append_user")])
       ELSE IF AfterAppendFailure = "return"
            THEN Set(r, [pc |-> "return", memRaised |-> TRUE,
                         calls |-> Called(req[r].calls, "append"),
                         trace |-> Step(r, "append_user")])
            ELSE Fail(r, "RedisError")
    /\ UNCHANGED <<hasApiKey, nStarted, lastCall, gwVars, provVars, clock, appended,
                   nCompleted, nAborted, lastAppend, lastRead>>

\* _append_memory: await self.memory.append_message(session_key, "assistant", response)
MemAppendAssistant(r, f) ==
    /\ req[r].pc = "mem_asst"
    /\ f # "none" => memFaults < MaxMemFaults
    /\ memFaults' = IF f # "none" THEN memFaults + 1 ELSE memFaults
    /\ AppendStore(req[r].session_key, "assistant", req[r].response, nStarted, f)
    /\ IF f = "none"
       THEN Set(r, [pc |-> "return", calls |-> Called(req[r].calls, "append"),
                    trace |-> Step(r, "append_assistant")])
       ELSE IF AfterAppendFailure = "return"
            THEN Set(r, [pc |-> "return", memRaised |-> TRUE,
                         calls |-> Called(req[r].calls, "append"),
                         trace |-> Step(r, "append_assistant")])
            ELSE Fail(r, "RedisError")
    /\ UNCHANGED <<hasApiKey, nStarted, lastCall, gwVars, provVars, clock, appended,
                   nCompleted, nAborted, lastAppend, lastRead>>

\* return {"source": ..., "response": ..., "cached": ..., "user_query": user_query}
Return(r) ==
    /\ req[r].pc = "return"
    /\ Set(r, [pc |-> "done", trace |-> Step(r, "return"),
               result |-> Returned(IF IsCacheHit(req[r].cached_response)
                                   THEN HitEnvelope(req[r].user_query, req[r].cached_response)
                                   ELSE MissEnvelope(req[r].user_query, req[r].response))])
    /\ UNCHANGED <<hasApiKey, nStarted, memFaults, lastCall, gwVars, provVars, memVars>>

\* the caller has the outcome; the slot is free again
Finish(r) ==
    /\ req[r].pc = "done"
    /\ req' = [req EXCEPT ![r] = IdleReq]
    /\ lastCall' = [lastCall EXCEPT ![<<req[r].customer_id, req[r].user_query>>] =
                      IF req[r].result.raised
                      THEN [op |-> "handle_query", raised |-> TRUE]
                      ELSE [op |-> "handle_query", raised |-> FALSE,
                            cached |-> req[r].result.value.cached,
                            response |-> req[r].result.value.response,
                            storedLocal |-> Get(req[r].set_result, "storage") = "local"]]
    /\ UNCHANGED <<hasApiKey, nStarted, memFaults, gwVars, provVars, memVars>>

Next ==
    \/ \E r \in SeqReqs, q \in SpecQueries, c \in SpecCustomers, s \in SpecSessions :
          Start(r, q, c, s)
    \/ \E r \in SeqReqs, t \in Transports(RedisGetTool) : CacheGet(r, t)
    \/ \E r \in SeqReqs : GenNoKey(r)
    \/ \E r \in SeqReqs, fails \in BOOLEAN : GenReadMemory(r, fails)
    \/ \E r \in SeqReqs, run \in GenOutcomes : GenRun(r, run)
    \/ \E r \in SeqReqs, t \in Transports(RedisSetTool) : CacheSet(r, t)
    \/ \E r \in SeqReqs, f \in AppendFailures : MemAppendUser(r, f)
    \/ \E r \in SeqReqs, f \in AppendFailures : MemAppendAssistant(r, f)
    \/ \E r \in SeqReqs : Return(r)
    \/ \E r \in SeqReqs : Finish(r)
    \/ \E key \in CacheKeys : (\A r \in Reqs : req[r].pc = "idle") /\ RemoteExpire(key)

Spec == Init /\ [][Next]_vars

-----------------------------------------------------------------------------
(* SpecKeys: handle_query over every way of giving or omitting customer_id *)
(* and session_id, the cache tools reachable or unreachable                 *)

MaxKeyRequests == 2

KeyCustomers == {None, "", "A"}
KeySessions  == {None, "", "s1"}

\* the redis tool is served and answers, or its call throws
KeyTransports(tool) == { t \in Transports(tool) : ToolInvoked(tool, Gw(t, None)) }

NextKeys ==
    \/ \E r \in SeqReqs, q \in SpecQueries, c \in KeyCustomers, s \in KeySessions :
          nStarted < MaxKeyRequests /\ Start(r, q, c, s)
    \/ \E r \in SeqReqs, t \in KeyTransports(RedisGetTool) : CacheGet(r, t)
    \/ \E r \in SeqReqs : GenNoKey(r)
    \/ \E r \in SeqReqs : GenReadMemory(r, FALSE)
    \/ \E r \in SeqReqs, run \in GenOutcomes : GenRun(r, run)
    \/ \E r \in SeqReqs, t \in KeyTransports(RedisSetTool) : CacheSet(r, t)
    \/ \E r \in SeqReqs : MemAppendUser(r, "none")
    \/ \E r \in SeqReqs : MemAppendAssistant(r, "none")
    \/ \E r \in SeqReqs : Return(r)
    \/ \E r \in SeqReqs : Finish(r)

SpecKeys == Init /\ [][NextKeys]_vars

-----------------------------------------------------------------------------
(* SpecConcurrent: one handle_query call per slot, in flight together or    *)
(* one after the other, their awaits interleaved in every order; the        *)
(* toolbox is reachable for the whole run or unreachable for the whole run, *)
(* the memory store may fail at any call                                    *)

ConcCustomers == {None, "A", "B"}
ConcSessions  == {None, "s1"}

\* the text Runner.run gives the call in slot r
OwnText(r) == IF r = 1 THEN "g1" ELSE "g2"

\* what the toolbox does in this run: the tool answers, or its call throws
RunTransport(tool) == Transport(<<tool>>, FALSE, gwIn.callThrows)

InitConcurrent ==
    /\ gwIn \in { [op |-> "toolbox", callThrows |-> b] : b \in BOOLEAN }
    /\ gwOut = NoCall
    /\ InitProv /\ InitMemWith(AgentMaxTurns) /\ InitOrch

NextConcurrent ==
    \/ \E r \in Reqs, q \in SpecQueries, c \in ConcCustomers, s \in ConcSessions :
          Start(r, q, c, s)
    \/ \E r \in Reqs : CacheGet(r, RunTransport(RedisGetTool))
    \/ \E r \in Reqs : GenNoKey(r)
    \/ \E r \in Reqs, fails \in BOOLEAN : GenReadMemory(r, fails)
    \/ \E r \in Reqs : GenRun(r, Returned(OwnText(r)))
    \/ \E r \in Reqs : CacheSet(r, RunTransport(RedisSetTool))
    \/ \E r \in Reqs, f \in AppendFailures : MemAppendUser(r, f)
    \/ \E r \in Reqs, f \in AppendFailures : MemAppendAssistant(r, f)
    \/ \E r \in Reqs : Return(r)

SpecConcurrent == InitConcurrent /\ [][NextConcurrent]_vars

-----------------------------------------------------------------------------
(* Claims about handle_query, under Spec *)

\* the call in slot r got past its cache read
PastCacheGet(r) == req[r].pc \notin {"idle", "cache_get"}

\* the envelope handle_query owes its caller, from the cache answer and the text alone
Owed(r) ==
    IF Success(req[r].cached_response) /\ Truthy(Get(req[r].cached_response, "data"))
    THEN [source |-> "cache", response |-> req[r].cached_response.data, cached |-> TRUE,
          user_query |-> req[r].user_query]
    ELSE [source |-> "agent", response |-> req[r].response, cached |-> FALSE,
          user_query |-> req[r].user_query]

\* C1: if get_cached_data returns success with non-empty data, handle_query
\* returns source "cache", cached true and that data as response, and neither
\* _generate_response nor Runner.run is invoked during the call.
C1_CacheHitNoGeneration ==
    \A r \in Reqs :
        ( /\ PastCacheGet(r)
          /\ Success(req[r].cached_response)
          /\ Truthy(Get(req[r].cached_response, "data")) )
        => /\ req[r].gen = "none"
           /\ req[r].pc \notin {"generate", "run", "cache_set"}
           /\ req[r].pc = "done"
                => req[r].result =
                     Returned([source |-> "cache",
                               response |-> req[r].cached_response.data,
                               cached |-> TRUE, user_query |-> req[r].user_query])

\* C1 happens: a call answered from the cache has returned
C1_Witness ==
    \E r \in Reqs :
        /\ req[r].pc = "done"
        /\ Success(req[r].cached_response)
        /\ req[r].cached_response.data = "g1"
        /\ req[r].result.value.cached

\* the last completed call for the pair of the call in slot r missed the cache
PriorMissed(r) ==
    /\ req[r].prior.op = "handle_query"
    /\ ~req[r].prior.raised
    /\ ~req[r].prior.cached

\* the remote get of the call in slot r succeeded with a value
RemoteHit(r) ==
    /\ Success(req[r].cached_response)
    /\ Get(req[r].cached_response, "data") # None
    /\ "storage" \notin DOMAIN req[r].cached_response

MissIsAgent(r) ==
    (req[r].pc = "done" /\ ~IsCacheHit(req[r].cached_response))
    => /\ ~req[r].result.raised
       /\ req[r].result.value.cached = FALSE
       /\ req[r].result.value.source = "agent"

\* C2 as stated: a call that misses the cache returns cached false and source
\* "agent", and the next call with the same (customer_id, query) is a cache hit
\* with the same response, whatever the remote cache tool does at the write
\* and at the read.
C2_Original ==
    \A r \in Reqs :
        /\ MissIsAgent(r)
        /\ (req[r].pc = "done" /\ PriorMissed(r))
           => /\ ~req[r].result.raised
              /\ req[r].result.value.cached = TRUE
              /\ req[r].result.value.response = req[r].prior.response

\* C2 amended: a call that misses the cache returns cached false and source
\* "agent"; the next call with the same (customer_id, query) is a cache hit
\* with the same response when its read consults the store the write went
\* to: the write fell back to the in-process mapping and the remote get fails
\* or returns no value, or the write succeeded remotely and the remote get
\* succeeds with the entry still stored.
C2_RoundTripSameStore ==
    \A r \in Reqs :
        /\ MissIsAgent(r)
        /\ ( /\ req[r].pc = "done" /\ PriorMissed(r)
             /\ \/ req[r].prior.storedLocal /\ ~RemoteHit(r)
                \/ ~req[r].prior.storedLocal /\ RemoteHit(r) )
           => /\ ~req[r].result.raised
              /\ req[r].result.value.cached = TRUE
              /\ req[r].result.value.source = "cache"
              /\ req[r].result.value.response = req[r].prior.response

\* C2 happens: a text cached in the in-process mapping is served to the next call
C2_Witness ==
    \E r \in Reqs :
        /\ req[r].pc = "done"
        /\ PriorMissed(r)
        /\ req[r].prior.storedLocal
        /\ Get(req[r].cached_response, "storage") = "local"
        /\ req[r].result.value.cached
        /\ req[r].result.value.response = req[r].prior.response

C4_MemoryNeverBreaks ==
    \A r \in Reqs :
        /\ req[r].readRaised
           => /\ req[r].pc = "run" \/ req[r].gen = "run"
              /\ req[r].prompt.context = <<>>
        /\ req[r].pc = "done"
           => /\ ~req[r].result.raised
              /\ req[r].result.value = Owed(r)
        /\ req[r].pc \in {"mem_asst", "return", "done"}
           => /\ remote = req[r].cacheAtMem.remote
              /\ localCache = req[r].cacheAtMem.localCache

\* C4 happens: the memory read raised and the call returned the generated text
C4_Witness ==
    \E r \in Reqs :
        /\ req[r].pc = "done"
        /\ req[r].readRaised
        /\ req[r].gen = "run"
        /\ req[r].result.value.response = "g1"

-----------------------------------------------------------------------------
(* Further claims about handle_query, under Spec *)

\* the cache (remote store or in-process mapping) holds value under key
Holds(key, value) ==
    \/ remote[key] = value
    \/ key \in DOMAIN localCache /\ localCache[key] = value

\* the call in slot r missed the cache and runs without a generation credential
NoCredentialMiss(r) ==
    /\ ~hasApiKey
    /\ PastCacheGet(r)
    /\ ~IsCacheHit(req[r].cached_response)

\* the first half of C12: no generation, the fixed string, written to the cache
NoCredentialFirstCall(r) ==
    NoCredentialMiss(r)
    => /\ req[r].pc # "run"
       /\ req[r].gen # "run"
       /\ req[r].pc \in {"mem_user", "mem_asst", "return", "done"}
          => /\ req[r].response = "I've gathered some information for you. How else can I help?"
             /\ Success(req[r].set_result)
             /\ Holds(req[r].cache_key, req[r].response)
       /\ req[r].pc = "done"
          => req[r].result =
               Returned([source |-> "agent", cached |-> FALSE,
                         response |-> "I've gathered some information for you. How else can I help?",
                         user_query |-> req[r].user_query])

\* C12 as stated: with no generation credential and no cache entry,
\* handle_query does not attempt generation, returns source "agent", cached
\* false and the fixed no-credential string, and writes that string to the
\* cache; a second identical call returns source "cache", cached true and the
\* same response.
C12_Original ==
    \A r \in Reqs :
        /\ NoCredentialFirstCall(r)
        /\ (~hasApiKey /\ req[r].pc = "done" /\ PriorMissed(r))
           => req[r].result =
                Returned([source |-> "cache", cached |-> TRUE,
                          response |-> req[r].prior.response,
                          user_query |-> req[r].user_query])

\* C12 amended: the first call is as stated; a second identical call returns
\* the same response, and returns it with source "cache" and cached true
\* when its read consults the store the first call wrote to (the write fell
\* back to the in-process mapping and the remote get fails or returns no
\* value, or the write succeeded remotely and the remote get succeeds with
\* the entry still stored); otherwise it may miss again and return the
\* string with source "agent", cached false.
C12_NoCredentialScenario ==
    \A r \in Reqs :
        /\ NoCredentialFirstCall(r)
        /\ (~hasApiKey /\ req[r].pc = "done" /\ PriorMissed(r))
           => /\ ~req[r].result.raised
              /\ req[r].result.value.response = req[r].prior.response
              /\ req[r].result.value.response =
                   "I've gathered some information for you. How else can I help?"
              /\ IF \/ req[r].prior.storedLocal /\ ~RemoteHit(r)
                    \/ ~req[r].prior.storedLocal /\ RemoteHit(r)
                 THEN /\ req[r].result.value.source = "cache"
                      /\ req[r].result.value.cached = TRUE
                      /\ req[r].gen = "none"
                 ELSE \/ /\ req[r].result.value.source = "agent"
                         /\ req[r].result.value.cached = FALSE
                      \/ /\ req[r].result.value.source = "cache"
                         /\ req[r].result.value.cached = TRUE

\* C12 happens: the second identical call without a credential is served
\* the fixed string from the remote store
C12_Witness ==
    \E r \in Reqs :
        /\ ~hasApiKey
        /\ req[r].pc = "done"
        /\ req[r].customer_id = "A"
        /\ PriorMissed(r)
        /\ ~req[r].prior.storedLocal
        /\ RemoteHit(r)
        /\ req[r].result.value.source = "cache"
        /\ req[r].result.value.response = NoKeyFallback

\* the call in slot r attempted generation and Runner.run raised
GenerationFailed(r) == req[r].gen = "run" /\ req[r].genRaised

\* the first half of C13: the "agent" fallback string, returned and cached
FailedGenerationCall(r) ==
    GenerationFailed(r)
    => /\ ~IsCacheHit(req[r].cached_response)
       /\ req[r].pc # "done" => req[r].pc \in {"cache_set", "mem_user", "mem_asst", "return"}
       /\ req[r].response =
            "I'll help you with that. Let me know if you need more specific information."
       /\ req[r].response \notin { GenerateFallbackResponse("database"),
                                   GenerateFallbackResponse("web_search"),
                                   GenerateFallbackResponse("cache") }
       /\ req[r].pc \in {"mem_user", "mem_asst", "return", "done"}
          => /\ Success(req[r].set_result)
             /\ Holds(req[r].cache_key, req[r].response)
       /\ req[r].pc = "done"
          => req[r].result =
               Returned([source |-> "agent", cached |-> FALSE,
                         response |-> req[r].response,
                         user_query |-> req[r].user_query])

\* the last completed call for the pair of slot r returned the "agent" fallback string
PriorFellBack(r) ==
    /\ PriorMissed(r)
    /\ req[r].prior.response = GenerateFallbackResponse("agent")

\* C13 as stated: when generation is attempted and fails, the response is
\* exactly the fallback string of the "agent" tag, with source "agent" and
\* cached false; that text is written to the cache, so a later identical
\* request returns it with source "cache" without attempting generation.
C13_Original ==
    \A r \in Reqs :
        /\ FailedGenerationCall(r)
        /\ (req[r].pc = "done" /\ PriorFellBack(r))
           => /\ req[r].result =
                   Returned([source |-> "cache", cached |-> TRUE,
                             response |-> req[r].prior.response,
                             user_query |-> req[r].user_query])
              /\ req[r].gen = "none"

\* C13 amended: the failed call is as stated, and the fallback text is
\* written to the cache (remote store, or in-process mapping when the remote
\* set fails); a later identical request returns it with source "cache",
\* without attempting generation, when its read consults the store that was
\* written (the entry unexpired), and otherwise generates again.
C13_FallbackIsCached ==
    \A r \in Reqs :
        /\ FailedGenerationCall(r)
        /\ ( /\ req[r].pc = "done" /\ PriorFellBack(r)
             /\ \/ req[r].prior.storedLocal /\ ~RemoteHit(r)
                \/ ~req[r].prior.storedLocal /\ RemoteHit(r) )
           => /\ req[r].result =
                   Returned([source |-> "cache", cached |-> TRUE,
                             response |-> req[r].prior.response,
                             user_query |-> req[r].user_query])
              /\ req[r].gen = "none"

\* C13 happens: a call is served the "agent" fallback string from the cache
C13_Witness ==
    \E r \in Reqs :
        /\ hasApiKey
        /\ req[r].pc = "done"
        /\ PriorFellBack(r)
        /\ req[r].gen = "none"
        /\ req[r].result.value.source = "cache"
        /\ req[r].result.value.response = GenerateFallbackResponse("agent")

\* the cache answer of the call in slot r is a hit: success with non-empty data
AnsweredHit(r) ==
    Success(req[r].cached_response) /\ Truthy(Get(req[r].cached_response, "data"))

\* C16: per handle_query call the side effects are bounded and nothing is
\* retried: exactly one cache read; on a hit no generation call and no cache
\* write; on a miss at most one generation call and exactly one cache write;
\* at most two memory appends on either path, and none after one that
\* failed; no remote operation is attempted a second time within the call.
C16_BoundedSideEffects ==
    \A r \in Reqs :
        /\ req[r].calls.get <= 1 /\ req[r].calls.read <= 1 /\ req[r].calls.run <= 1
        /\ req[r].calls.set <= 1 /\ req[r].calls.append <= 2
        /\ PastCacheGet(r) => req[r].calls.get = 1
        /\ (PastCacheGet(r) /\ AnsweredHit(r))
           => req[r].calls.read = 0 /\ req[r].calls.run = 0 /\ req[r].calls.set = 0
        /\ (req[r].pc = "done" /\ ~AnsweredHit(r))
           => /\ req[r].calls.set = 1
              /\ req[r].calls.run = (IF hasApiKey THEN 1 ELSE 0)
              /\ req[r].calls.read = req[r].calls.run
        /\ req[r].pc = "done"
           => /\ ~req[r].result.raised
              /\ req[r].calls.append \in {1, 2}
              /\ req[r].calls.append = 1 => req[r].memRaised

\* C16 happens: a miss with a failed remote read, a failed generation, a
\* failed remote write and a failed append has returned after one call of each
C16_Witness ==
    \E r \in Reqs :
        /\ req[r].pc = "done"
        /\ ~Success(req[r].cached_response)
        /\ req[r].genRaised
        /\ Get(req[r].set_result, "storage") = "local"
        /\ req[r].memRaised
        /\ req[r].calls = [get |-> 1, read |-> 1, run |-> 1, set |-> 1, append |-> 1]

\* the step sequences of a whole call: on a hit, on a miss with a generation
\* credential, on a miss without one; the second of each pair is the call
\* whose first append raised
HitRuns ==
    { <<"cache_read", "append_user", "append_assistant", "return">>,
      <<"cache_read", "append_user", "return">> }

MissRuns ==
    { <<"cache_read", "memory_read", "generation", "cache_write",
        "append_user", "append_assistant", "return">>,
      <<"cache_read", "memory_read", "generation", "cache_write",
        "append_user", "return">> }

NoCredentialRuns ==
    { <<"cache_read", "cache_write", "append_user", "append_assistant", "return">>,
      <<"cache_read", "cache_write", "append_user", "return">> }

IsPrefix(s, t) == Len(s) <= Len(t) /\ s = SubSeq(t, 1, Len(s))

\* the whole runs open to the call in slot r
RunsOf(r) ==
    IF ~PastCacheGet(r) THEN HitRuns \cup MissRuns \cup NoCredentialRuns
    ELSE IF AnsweredHit(r) THEN HitRuns
    ELSE IF hasApiKey THEN MissRuns
    ELSE NoCredentialRuns

\* C21: within one handle_query call the steps occur in a fixed order: the
\* cache read comes first; on a hit the memory append precedes the return
\* and no other step occurs; on a miss with a credential the memory read
\* precedes generation, generation the cache write, the cache write the
\* memory append, and the append the return.
C21_StepOrder ==
    \A r \in Reqs :
        /\ \E run \in RunsOf(r) : IsPrefix(req[r].trace, run)
        /\ req[r].pc = "done" => req[r].trace \in RunsOf(r)
        /\ PastCacheGet(r) <=> req[r].trace # <<>>

\* C21 happens: a miss with a credential has gone through all seven steps
C21_Witness ==
    \E r \in Reqs :
        /\ hasApiKey
        /\ req[r].pc = "done"
        /\ req[r].trace = <<"cache_read", "memory_read", "generation", "cache_write",
                            "append_user", "append_assistant", "return">>

\* the entry the step pushed to the session of slot r, decoded
Pushed(r) == bucket'[req[r].session_key][Len(bucket'[req[r].session_key])][2]

\* the step is an append of slot r that pushed its entry
Pushes(r, pc) ==
    /\ req[r].pc = pc /\ req'[r] # req[r]
    /\ bucket'[req[r].session_key] # bucket[req[r].session_key]

\* C26: the same text goes to every sink of a handle_query call: the value
\* passed to cache_data, the content of the appended assistant entry and the
\* returned response are one string, which on a hit is the cached value; the
\* appended user entry's content is user_query.
C26_SameTextEverywhere ==
    [][ \A r \in Reqs :
          /\ (req[r].pc = "cache_set" /\ req'[r].pc = "mem_user")
             => /\ req'[r].response = req[r].response
                /\ IF Get(req'[r].set_result, "storage") = "local"
                   THEN localCache'[req[r].cache_key] = req[r].response
                   ELSE remote'[req[r].cache_key] = req[r].response
          /\ Pushes(r, "mem_user")
             => Pushed(r).role = "user" /\ Pushed(r).content = req[r].user_query
          /\ Pushes(r, "mem_asst")
             => /\ Pushed(r).role = "assistant" /\ Pushed(r).content = req[r].response
                /\ AnsweredHit(r) => Pushed(r).content = req[r].cached_response.data
          /\ (req[r].pc = "return" /\ req'[r].pc = "done")
             => /\ ~req'[r].result.raised
                /\ req'[r].result.value.response = req[r].response
                /\ AnsweredHit(r)
                   => req'[r].result.value.response = req[r].cached_response.data
      ]_vars

\* C26 happens: a miss has returned the generated text "ok", which is also
\* the cached value and the content of the last entry of the session, an
\* assistant entry following the user entry with the query
C26_Witness ==
    \E r \in Reqs :
        /\ req[r].pc = "done" /\ ~req[r].result.raised
        /\ ~AnsweredHit(r)
        /\ req[r].gen = "run"
        /\ req[r].result.value.response = req[r].response
        /\ remote[req[r].cache_key] = req[r].response
        /\ Len(bucket[req[r].session_key]) = 2
        /\ bucket[req[r].session_key][1][2].content = req[r].user_query
        /\ bucket[req[r].session_key][2][2].content = req[r].response
        /\ bucket[req[r].session_key][2][2].role = "assistant"

\* the step is one of a call in slot r whose cache read was a hit
HitStep(r) ==
    /\ req'[r].pc # "idle"
    /\ Success(req'[r].cached_response) /\ Truthy(Get(req'[r].cached_response, "data"))

\* a call that returned cached true was a hit and made no cache_data call
CachedMeansNoWrite ==
    \A r \in Reqs :
        (req[r].pc = "done" /\ ~req[r].result.raised /\ req[r].result.value.cached)
        => /\ req[r].calls.set = 0
           /\ ~(\E i \in DOMAIN req[r].trace : req[r].trace[i] = "cache_write")
           /\ AnsweredHit(r)

\* the steps of a hit leave both cache stores as they are, and of the memory
\* they touch the call's own session only
HitStepsLeaveCache ==
    \A r \in Reqs :
        HitStep(r)
        => /\ remote' = remote /\ localCache' = localCache
           /\ \A s \in SessionKeys \ {req'[r].session_key} :
                 /\ bucket'[s] = bucket[s]
                 /\ expiresIn'[s] = expiresIn[s]

\* C30: a cache hit is read-only for the cache: a handle_query call that
\* returns cached true makes no cache_data call; the remote store and the
\* in-process mapping are unchanged by it, and only the memory bucket of its
\* session is modified.
C30_HitIsReadOnly == [](CachedMeansNoWrite) /\ [][HitStepsLeaveCache]_vars

\* C30 happens: a hit has returned cached true after appending its turn, with
\* the cache stores as they were when it read them
C30_Witness ==
    \E r \in Reqs :
        /\ req[r].pc = "done" /\ ~req[r].result.raised
        /\ req[r].result.value.cached
        /\ req[r].calls.set = 0 /\ req[r].calls.append = 2
        /\ Len(bucket[req[r].session_key]) = 2
        /\ bucket[req[r].session_key][2][2].content = req[r].result.value.response
        /\ req[r].cacheAtMem = [remote |-> remote, localCache |-> localCache]

-----------------------------------------------------------------------------
(* Claims about the two cache stores, under SpecProvider *)

\* the step put a value under key k of the remote store
RemoteGains(k) == remote'[k] # remote[k] /\ remote'[k] # None

\* C24: the remote store and the in-process mapping are never reconciled: a
\* cache_data whose remote set fails puts nothing in the remote store, a
\* cache_data whose remote set succeeds leaves the in-process mapping
\* unchanged, and the remote store gains a value for a key only from a
\* cache_data for that key that succeeded remotely, never from the mapping.
C24_NeverReconciled ==
    [][ /\ \A k \in CacheKeys :
              RemoteGains(k)
              => /\ lastOp'.op = "cache_data"
                 /\ ~lastOp'.remoteFailed
                 /\ lastOp'.key = k
                 /\ lastOp'.value = remote'[k]
        /\ (lastOp'.op = "cache_data" /\ ~lastOp'.remoteFailed) => localCache' = localCache
        /\ localCache' # localCache
           => /\ lastOp'.op = "cache_data" /\ lastOp'.remoteFailed
              /\ remote' = remote
      ]_vars

\* C24 happens: an entry written during an outage is in the in-process
\* mapping and absent from the remote store, after a later remote read and a
\* later remote write of another key both succeeded
C24_Witness ==
    \E k \in ProvKeys, j \in ProvKeys :
        /\ k # j
        /\ k \in DOMAIN localCache /\ localCache[k] = "v1"
        /\ remote[k] = None
        /\ remote[j] = "v1"
        /\ lastOp.op = "get_cached_data" /\ lastOp.key = k /\ ~lastOp.remoteFailed

-----------------------------------------------------------------------------
(* Claims about the conversation memory, under SpecMemory *)

Min(a, b) == IF a < b THEN a ELSE b

\* the last k elements of a sequence
LastK(seq, k) == SubSeq(seq, Len(seq) - k + 1, Len(seq))

\* C5: for every max_turns T >= 1, a session's stored list has at most 2*T
\* entries whenever no append_message call is in progress, also after an
\* append_message call that a raising rpush, ltrim or expire aborted.
C5_BucketBounded ==
    maxTurns >= 1 => \A s \in SessionKeys : Len(bucket[s]) <= 2 * maxTurns

-----------------------------------------------------------------------------
(* Claims about the fallback provider, under SpecProvider *)

\* C7 as stated: cache_data(k, v) under a failing remote set stores v locally
\* and reports storage "local", and a following get_cached_data(k) returns
\* {success: true, data: v, storage: "local"}.
C7_Original ==
    /\ (lastOp.op = "cache_data" /\ lastOp.remoteFailed)
          => /\ lastOp.result.success
             /\ Get(lastOp.result, "storage") = "local"
             /\ lastOp.key \in DOMAIN localCache
             /\ localCache[lastOp.key] = lastOp.value
    /\ ( /\ lastOp.op = "get_cached_data"
         /\ prevOp.op = "cache_data" /\ prevOp.remoteFailed
         /\ prevOp.key = lastOp.key )
          => lastOp.result = [success |-> TRUE, data |-> prevOp.value, storage |-> "local"]

\* C7 amended: ... a following get_cached_data(k) returns {success: true,
\* data: v, storage: "local"} unless its remote get succeeds with a non-null
\* value for k, which is then returned instead.
C7_LocalRoundTrip ==
    /\ (lastOp.op = "cache_data" /\ lastOp.remoteFailed)
          => /\ lastOp.result.success
             /\ Get(lastOp.result, "storage") = "local"
             /\ lastOp.key \in DOMAIN localCache
             /\ localCache[lastOp.key] = lastOp.value
    /\ ( /\ lastOp.op = "get_cached_data"
         /\ prevOp.op = "cache_data" /\ prevOp.remoteFailed
         /\ prevOp.key = lastOp.key )
          => IF ~lastOp.remoteFailed /\ lastOp.remoteData # None
             THEN lastOp.result = [success |-> TRUE, data |-> lastOp.remoteData]
             ELSE lastOp.result =
                    [success |-> TRUE, data |-> prevOp.value, storage |-> "local"]

\* C7 happens: a get after a locally stored write reads it back from the mapping
C7_Witness ==
    /\ lastOp.op = "get_cached_data"
    /\ prevOp.op = "cache_data" /\ prevOp.remoteFailed
    /\ prevOp.key = lastOp.key
    /\ prevOp.value = "v1"
    /\ lastOp.result = [success |-> TRUE, data |-> "v1", storage |-> "local"]

\* C8 as stated: no fallback-provider operation returns success false.
C8_Original ==
    lastOp.op # "none" => lastOp.result.success

\* C8 amended: fetch_recent_orders, fetch_customer_profile, web_search and
\* cache_data never return success false; get_cached_data returns success
\* false exactly when its remote get fails and the key is not in the
\* in-process mapping.
C8_SubstituteOrPropagate ==
    /\ lastOp.op \in {"fetch_recent_orders", "fetch_customer_profile", "web_search",
                      "cache_data"}
          => lastOp.result.success
    /\ lastOp.op = "get_cached_data"
          => (~lastOp.result.success
                <=> (lastOp.remoteFailed /\ lastOp.key \notin DOMAIN localCache))

\* C8 happens: a failed remote get is answered from the in-process mapping
C8_Witness ==
    /\ lastOp.op = "get_cached_data"
    /\ lastOp.remoteFailed
    /\ lastOp.result.success
    /\ lastOp.result.data = localCache[lastOp.key]

\* C10: when the recent-orders tool call fails, fetch_recent_orders(c) returns
\* success true, source "mock" and exactly one record whose customer_id is c;
\* when it succeeds, the gateway envelope is returned unchanged.
C10_OrdersFallback ==
    lastOp.op = "fetch_recent_orders"
    => IF lastOp.remoteFailed
       THEN /\ lastOp.result.success
            /\ Get(lastOp.result, "source") = "mock"
            /\ Len(lastOp.result.data) = 1
            /\ lastOp.result.data[1].customer_id = lastOp.customer_id
       ELSE lastOp.result = [success |-> TRUE, data |-> OrdersRows]

\* C10 happens: the mock record names the customer asked for
C10_Witness ==
    /\ lastOp.op = "fetch_recent_orders"
    /\ lastOp.remoteFailed
    /\ lastOp.customer_id = "B"
    /\ lastOp.result.data[1].customer_id = "B"

-----------------------------------------------------------------------------
(* Claims about the tool gateway, under SpecGateway *)

\* no loaded tool normalizes to tool_name
NotLoaded(tool_name, toolset) ==
    \A i \in DOMAIN toolset : toolset[i] = <<>> \/ Normalize(toolset[i]) # tool_name

\* C9: _call_tool never raises. A name not in the loaded tool map gives
\* {success: false, error: "Tool '<name>' not found"} and no tool is called; a
\* throwing load or call gives {success: false, error: <message>}; otherwise
\* {success: true, data: <the tool's result>}.
C9_CallToolEnvelope ==
    gwOut # NoCall
    => /\ ~gwOut.outcome.raised
       /\ IF gwIn.loadThrows
          THEN /\ gwOut.outcome.value = [success |-> FALSE, error |-> gwIn.loadMsg]
               /\ gwOut.invoked = <<>>
          ELSE IF NotLoaded(gwIn.tool_name, gwIn.toolset)
          THEN /\ gwOut.outcome.value =
                    [success |-> FALSE, error |-> <<"Tool '", gwIn.tool_name, "' not found">>]
               /\ gwOut.invoked = <<>>
          ELSE IF gwIn.callThrows
          THEN gwOut.outcome.value = [success |-> FALSE, error |-> gwIn.callMsg]
          ELSE gwOut.outcome.value = [success |-> TRUE, data |-> gwIn.result]

\* C9 happens: a throwing tool call is reported in the envelope
C9_Witness ==
    /\ gwOut # NoCall
    /\ ~gwIn.loadThrows /\ gwIn.callThrows
    /\ Len(gwOut.invoked) = 1
    /\ gwOut.outcome = Returned([success |-> FALSE, error |-> CallError])

-----------------------------------------------------------------------------
(* Further claims about the tool gateway, under SpecGateway *)

IsWord(x) == x # "-" /\ x # "_"

\* the words of a tool name, its separators left out
Words(name) == SelectSeq(name, IsWord)

\* the name uses '-' only
Dashed(name) == \A i \in DOMAIN name : name[i] # "_"

\* a tool whose name has the words of tool_name was loaded
LoadedAs(tool_name) ==
    \E i \in DOMAIN gwIn.toolset :
        gwIn.toolset[i] # <<>> /\ Words(gwIn.toolset[i]) = Words(tool_name)

\* _call_tool reached the call of a tool with the words of tool_name
Found(tool_name) ==
    /\ Len(gwOut.invoked) = 1
    /\ Words(gwOut.invoked[1]) = Words(tool_name)

\* C18 as stated: lookup is insensitive to the separator on both sides: a
\* tool loaded under a name using '_' or '-' is found by _call_tool called
\* with the '_' form as with the '-' form of that name.
C18_Original ==
    (gwOut # NoCall /\ ~gwIn.loadThrows /\ LoadedAs(gwIn.tool_name))
    => Found(gwIn.tool_name)

\* C18 amended: lookup is insensitive to the separator on the source's side
\* only: a tool loaded under a name using '_' or '-' is found by _call_tool
\* called with the '-' form of that name; called with the '_' form,
\* _call_tool returns "Tool '<name>' not found" and calls no tool.
C18_SourceSideOnly ==
    (gwOut # NoCall /\ ~gwIn.loadThrows /\ LoadedAs(gwIn.tool_name))
    => IF Dashed(gwIn.tool_name)
       THEN Found(gwIn.tool_name)
       ELSE /\ gwOut.invoked = <<>>
            /\ gwOut.outcome =
                 Returned([success |-> FALSE,
                           error |-> <<"Tool '", gwIn.tool_name, "' not found">>])

\* C18 happens: a tool loaded as recent_orders is found under recent-orders
C18_Witness ==
    /\ gwOut # NoCall
    /\ gwIn.tool_name = <<"recent", "-", "orders">>
    /\ gwIn.toolset = << <<"recent", "_", "orders">> >>
    /\ ~gwIn.loadThrows /\ ~gwIn.callThrows
    /\ gwOut.invoked = << <<"recent", "_", "orders">> >>
    /\ Success(gwOut.outcome.value)

-----------------------------------------------------------------------------
(* Further claims about the fallback provider, under SpecProvider *)

\* the text (a sequence of pieces) has the piece q in it
Embeds(text, q) == \E i \in DOMAIN text : text[i] = q

\* C11: web_search never raises and never returns success false. With no
\* search credential, or with a credential and a failing search call, it
\* returns success true, source "mock" and exactly one result, the payload's
\* query, the result's title and its snippet all holding the query text; it
\* returns source "tavily" only when the search call succeeded.
C11_WebSearchMock ==
    lastOp.op = "web_search"
    => /\ "success" \in DOMAIN lastOp.result
       /\ lastOp.result.success = TRUE
       /\ (~lastOp.tavily_key \/ lastOp.remoteFailed)
          => /\ lastOp.result.source = "mock"
             /\ lastOp.result.data.query = lastOp.query
             /\ Len(lastOp.result.data.results) = 1
             /\ Embeds(lastOp.result.data.results[1].title, lastOp.query)
             /\ Embeds(lastOp.result.data.results[1].snippet, lastOp.query)
       /\ lastOp.result.source \in {"mock", "tavily"}
       /\ lastOp.result.source = "tavily"
          => lastOp.tavily_key /\ ~lastOp.remoteFailed

\* C11 happens: a credential is set, the search call fails, the mock names the query
C11_Witness ==
    /\ lastOp.op = "web_search"
    /\ lastOp.tavily_key
    /\ lastOp.remoteFailed
    /\ lastOp.query = "q2"
    /\ lastOp.result.source = "mock"
    /\ lastOp.result.data.query = "q2"

\* the answer of the in-process mapping for key
LocalAnswer(key) == [success |-> TRUE, data |-> localCache[key], storage |-> "local"]

\* C15 as stated: a remote get that succeeds with a non-empty value is
\* returned as is; one that succeeds but is empty (null or the empty string)
\* is a miss and, like a failed remote get, k is looked up in the in-process
\* mapping and returned with storage "local" if present; only if k is absent
\* there is the gateway's own envelope returned unchanged.
C15_Original ==
    lastOp.op = "get_cached_data"
    => IF Success(lastOp.gateway) /\ Truthy(Get(lastOp.gateway, "data"))
       THEN lastOp.result = lastOp.gateway
       ELSE IF lastOp.key \in DOMAIN localCache
            THEN lastOp.result = LocalAnswer(lastOp.key)
            ELSE lastOp.result = lastOp.gateway

\* C15 amended: a remote get that succeeds with a non-null value (the empty
\* string included) is returned as is; one that succeeds with null data is a
\* miss and, like a failed remote get, k is looked up in the in-process
\* mapping and returned with storage "local" if present; only if k is absent
\* there is the gateway's own envelope (possibly success false) returned
\* unchanged.
C15_Precedence ==
    lastOp.op = "get_cached_data"
    => IF Success(lastOp.gateway) /\ Get(lastOp.gateway, "data") # None
       THEN lastOp.result = lastOp.gateway
       ELSE IF lastOp.key \in DOMAIN localCache
            THEN lastOp.result = LocalAnswer(lastOp.key)
            ELSE lastOp.result = lastOp.gateway

\* C15 happens: the remote get succeeds with null data and the mapping answers
C15_Witness ==
    /\ lastOp.op = "get_cached_data"
    /\ Success(lastOp.gateway)
    /\ lastOp.gateway.data = None
    /\ lastOp.key \in DOMAIN localCache
    /\ lastOp.result = [success |-> TRUE, data |-> "v1", storage |-> "local"]

\* success true without an error field, or success false with one
EnvelopeOk(e) ==
    /\ "success" \in DOMAIN e
    /\ e.success \in BOOLEAN
    /\ e.success => "error" \notin DOMAIN e
    /\ ~e.success => "error" \in DOMAIN e

\* C19: every envelope returned by _call_tool and by the five fallback
\* provider operations has success true and no error field (data may be
\* null), or success false and an error field.
C19_EnvelopeInvariant ==
    /\ lastOp.op \in {"fetch_recent_orders", "fetch_customer_profile", "web_search",
                      "cache_data", "get_cached_data"}
       => EnvelopeOk(lastOp.result)
    /\ lastOp.op = "get_cached_data" => EnvelopeOk(lastOp.gateway)
    /\ (lastOp.op = "get_cached_data" /\ Success(lastOp.result))
       => "data" \in DOMAIN lastOp.result

\* C19 happens: get_cached_data hands on a failure envelope of _call_tool
C19_Witness ==
    /\ lastOp.op = "get_cached_data"
    /\ ~lastOp.result.success
    /\ lastOp.result = lastOp.gateway
    /\ lastOp.result.error = CallError

-----------------------------------------------------------------------------
(* Claims about stored lists with malformed entries, under SpecStored *)

\* the window of the stored list a read with this limit asks for
RequestedWindow(list, limit) ==
    LET turns == IF limit = NoLimit \/ limit = <<0>> THEN maxTurns ELSE limit[1]
    IN  LastK(list, Min(Len(list), 2 * turns))

IsJson(raw) == raw[1] = "json"

\* the valid entries of a window, parsed, in their stored order
ValidOf(window) ==
    LET valid == SelectSeq(window, IsJson)
    IN  [i \in DOMAIN valid |-> valid[i][2]]

\* C14: if a session's stored list holds entries that are not valid JSON,
\* get_recent_messages does not raise and returns exactly the valid entries
\* of the requested window, in their stored order, each malformed one omitted.
C14_MalformedSkipped ==
    lastRead.op = "get_recent_messages"
    => /\ ~lastRead.outcome.raised
       /\ lastRead.outcome.value =
            ValidOf(RequestedWindow(bucket[lastRead.session_id], lastRead.limit))

\* C14 happens: a malformed entry between two valid ones is left out
C14_Witness ==
    /\ lastRead.op = "get_recent_messages"
    /\ maxTurns = 2
    /\ lastRead.limit = NoLimit
    /\ Len(bucket["s1"]) = 4
    /\ bucket["s1"][2] # Garbage
    /\ bucket["s1"][3] = Garbage
    /\ bucket["s1"][4] # Garbage
    /\ ~lastRead.outcome.raised
    /\ Len(lastRead.outcome.value) = 2 + (IF bucket["s1"][1] = Garbage THEN 0 ELSE 1)

-----------------------------------------------------------------------------
(* Claims about the conversation key, under SpecKeys *)

Given(x) == x # None /\ x # ""

\* the conversation key the request in slot r is owed
OwedKey(r) ==
    IF Given(req[r].session_id) THEN req[r].session_id
    ELSE IF Given(req[r].customer_id) THEN req[r].customer_id
    ELSE "anonymous-session"

\* the "Role: content" lines of the newest 2 * max_turns entries of a stored list
ContextOf(list) ==
    LET w == LastK(list, Min(Len(list), 2 * maxTurns))
    IN  [i \in DOMAIN w |-> <<Title(w[i][2].role), w[i][2].content>>]

\* the key of a started request is the owed one, and its memory read used it
KeyIsOwed ==
    \A r \in Reqs :
        /\ req[r].pc # "idle" => req[r].session_key = OwedKey(r)
        /\ req[r].pc = "run" => req[r].prompt.context = ContextOf(bucket[OwedKey(r)])

\* a step that changes a session's stored list is an append of a request owed that key
AppendsUseOwedKey ==
    \A s \in SessionKeys :
        bucket'[s] # bucket[s]
        => \E r \in Reqs : /\ req[r].pc \in {"mem_user", "mem_asst"}
                           /\ s = OwedKey(r)
                           /\ Len(bucket'[s]) > 0
                           /\ bucket'[s][Len(bucket'[s])][2].content
                                = (IF req[r].pc = "mem_user" THEN req[r].user_query
                                   ELSE req[r].response)

\* C17: the conversation key of a request is session_id if given, else
\* customer_id, else the sentinel "anonymous-session" (an empty string counts
\* as not given); every memory read and every append of one handle_query
\* call uses that single key.
C17_ConversationKey == [](KeyIsOwed) /\ [][AppendsUseOwedKey]_vars

\* C17 happens: session_id is the empty string, customer_id is given, and the
\* turn went to the customer's list while another session's list is not empty
C17_Witness ==
    \E r \in Reqs :
        /\ req[r].pc = "done"
        /\ req[r].session_id = ""
        /\ req[r].customer_id = "A"
        /\ req[r].calls.append = 2
        /\ Len(bucket["A"]) = 2
        /\ Len(bucket["s1"]) = 2

-----------------------------------------------------------------------------
(* Claims about concurrent handle_query calls, under SpecConcurrent *)

\* the calls in slots a and b have both returned, had the same cache key and
\* both got a miss from their cache read
BothMissed(a, b) ==
    /\ a # b
    /\ req[a].pc = "done" /\ req[b].pc = "done"
    /\ req[a].cache_key = req[b].cache_key
    /\ ~AnsweredHit(a) /\ ~AnsweredHit(b)

Took(r, step) == \E i \in DOMAIN req[r].trace : req[r].trace[i] = step

\* the value a get_cached_data(key) made now would return
ReadBack(key) == Get(GetCachedData(key, localCache, remote, RunTransport(RedisGetTool)), "data")

-----------------------------------------------------------------------------
(* SpecAppends: append_message calls of several processes on one session,   *)
(* interleaved at the awaits between rpush, ltrim and expire; no store      *)
(* operation raises                                                        *)

\* rpush calls made in a run
MaxPushes == 4

InitAppends ==
    /\ InitGwIdle /\ InitProv /\ InitOrchIdle
    /\ \E T \in 1..MaxTurns : InitMemWith(T)

\* await self._client.rpush(key, payload)
Rpush(p, session_id, role, content) ==
    /\ inflight[p].pc = "idle"
    /\ clock' = clock + 1
    /\ bucket' = [bucket EXCEPT ![session_id] = RPush(@, Dumps(role, content, clock + 1))]
    /\ appended' = [appended EXCEPT ![session_id] =
                      Append(@, [role |-> role, content |-> content, timestamp |-> clock + 1])]
    /\ sinceAppend' = [sinceAppend EXCEPT ![session_id] = <<0>>]
    /\ inflight' = [inflight EXCEPT ![p] = [pc |-> "pushed", session_id |-> session_id]]
    /\ UNCHANGED <<maxTurns, hasTtl, nCompleted, nAborted, lastAppend, lastRead, expiresIn,
                   nTicks>>

\* await self._client.ltrim(key, -(self._max_turns * 2), -1)
Ltrim(p) ==
    /\ inflight[p].pc = "pushed"
    /\ bucket' = [bucket EXCEPT ![inflight[p].session_id] = LTrim(@, -(maxTurns * 2), -1)]
    /\ inflight' = [inflight EXCEPT ![p].pc = "trimmed"]
    /\ UNCHANGED <<maxTurns, hasTtl, clock, appended, nCompleted, nAborted, lastAppend,
                   lastRead, expiresIn, sinceAppend, nTicks>>

\* if self._ttl: await self._client.expire(key, self._ttl); the call returns
Expire(p) ==
    /\ inflight[p].pc = "trimmed"
    /\ LET session_id == inflight[p].session_id
       IN  /\ hasTtl' = [hasTtl EXCEPT ![session_id] = IF TtlSeconds # 0 THEN TRUE ELSE @]
           /\ expiresIn' = [expiresIn EXCEPT ![session_id] =
                              IF TtlSeconds # 0 THEN <<TtlSeconds>> ELSE @]
           /\ nCompleted' = [nCompleted EXCEPT ![session_id] = @ + 1]
           /\ lastAppend' = [op |-> "append_message", session_id |-> session_id,
                             failed |-> "none"]
    /\ inflight' = [inflight EXCEPT ![p] = NoAppend]
    /\ UNCHANGED <<maxTurns, bucket, clock, appended, nAborted, lastRead, sinceAppend, nTicks>>

NextAppends ==
    \/ \E p \in Appenders, s \in MemSessions, role \in Roles, c \in MemContents :
          /\ clock < MaxPushes
          /\ Rpush(p, s, role, c)
          /\ UNCHANGED <<gwVars, provVars, orchVars>>
    \/ \E p \in Appenders : Ltrim(p) /\ UNCHANGED <<gwVars, provVars, orchVars>>
    \/ \E p \in Appenders : Expire(p) /\ UNCHANGED <<gwVars, provVars, orchVars>>

SpecAppends == InitAppends /\ [][NextAppends]_vars

\* the append_message calls on session s that have pushed and not yet trimmed
PushedNotTrimmed(s) ==
    { p \in Appenders : inflight[p].pc = "pushed" /\ inflight[p].session_id = s }

\* the append_message calls on session s that have not returned
InFlight(s) ==
    { p \in Appenders : inflight[p].pc # "idle" /\ inflight[p].session_id = s }

-----------------------------------------------------------------------------
(* SpecExpiry: append_message calls on a session, every store operation     *)
(* free to raise, and the passage of time at the store                      *)

MaxTicks == 3

\* the lengths of time that pass between two calls
Durations == {1, TtlSeconds - 1, TtlSeconds}

InitExpiry ==
    /\ InitGwIdle /\ InitProv /\ InitOrchIdle
    /\ \E T \in 1..MaxTurns : InitMemWith(T)

\* the store deletes the key once the expiry set by expire(key, self._ttl) has run out
Expired(session_id, d) ==
    expiresIn[session_id] # NoTime /\ expiresIn[session_id][1] <= d

\* d seconds pass
Tick(d) ==
    /\ nTicks' = nTicks + 1
    /\ bucket' = [s \in SessionKeys |-> IF Expired(s, d) THEN <<>> ELSE bucket[s]]
    /\ hasTtl' = [s \in SessionKeys |-> IF Expired(s, d) THEN FALSE ELSE hasTtl[s]]
    /\ expiresIn' = [s \in SessionKeys |->
                       IF expiresIn[s] = NoTime \/ Expired(s, d) THEN NoTime
                       ELSE <<expiresIn[s][1] - d>>]
    /\ sinceAppend' = [s \in SessionKeys |->
                         IF sinceAppend[s] = NoTime THEN NoTime ELSE <<sinceAppend[s][1] + d>>]
    /\ appended' = [s \in SessionKeys |-> IF Expired(s, d) THEN <<>> ELSE appended[s]]
    /\ nCompleted' = [s \in SessionKeys |-> IF Expired(s, d) THEN 0 ELSE nCompleted[s]]
    /\ nAborted' = [s \in SessionKeys |-> IF Expired(s, d) THEN 0 ELSE nAborted[s]]
    /\ UNCHANGED <<maxTurns, clock, lastAppend, lastRead, inflight>>

NextExpiry ==
    \/ \E s \in MemSessions, role \in Roles, c \in MemContents, f \in AppendFailures :
          /\ clock < MaxAppends
          /\ AppendMessage(s, role, c, f)
          /\ UNCHANGED <<gwVars, provVars, orchVars>>
    \/ \E d \in Durations :
          /\ nTicks < MaxTicks
          /\ Tick(d)
          /\ UNCHANGED <<gwVars, provVars, orchVars>>

SpecExpiry == InitExpiry /\ [][NextExpiry]_vars

\* C25: a bucket expires as a whole when ttl_seconds have passed with no
\* append to its session: a session that holds entries had an append less
\* than ttl_seconds ago.
C25_ExpiresWithTtl ==
    \A s \in MemSessions :
        bucket[s] # <<>> => sinceAppend[s] # NoTime /\ sinceAppend[s][1] < TtlSeconds

\* when every append_message call so far returned, the statement of C25 holds:
\* the key expires ttl_seconds after the last append and not before
ExpiryFollowsLastAppend ==
    \A s \in MemSessions :
        (bucket[s] # <<>> /\ nAborted[s] = 0)
        => /\ sinceAppend[s] # NoTime /\ sinceAppend[s][1] < TtlSeconds
           /\ expiresIn[s] = <<TtlSeconds - sinceAppend[s][1]>>

\* no handle_query call is in progress: every call made has returned or raised
Quiescent == \A r \in Reqs : req[r].pc \in {"idle", "done"}

\* the stored list is made of whole turns: user, assistant, user, assistant, ...
WholeTurns(list) ==
    /\ Len(list) % 2 = 0
    /\ \A i \in DOMAIN list :
          list[i][2].role = (IF i % 2 = 1 THEN "user" ELSE "assistant")

\* C27: whenever no handle_query call is in progress, the entries of every
\* session bucket alternate user, assistant, ... starting with a user entry,
\* each user entry followed by its reply.
C27_TurnsStoredWhole ==
    Quiescent => \A s \in SessionKeys : WholeTurns(bucket[s])

\* the call in slot r has built its prompt from the entries it read
HasContext(r) == "context" \in DOMAIN req[r].prompt

\* C28: conversation memory does not leak between customers: when the only
\* two calls made so far are for different customers, the generation context
\* of one holds no entry appended by the other, whatever session_id each
\* was given.
C28_NoLeakBetweenCustomers ==
    \A a, b \in Reqs :
        ( /\ a # b /\ nStarted = 2
          /\ req[a].pc # "idle" /\ req[b].pc # "idle"
          /\ req[a].customer_id # req[b].customer_id
          /\ HasContext(b) )
        => req[b].prompt.context = <<>>

\* the customer a call's cache key is made for: customer_id, or none
KeyCustomer(r) == IF Truthy(req[r].customer_id) THEN req[r].customer_id ELSE None

\* slots a and b hold the only two calls made so far
OnlyCalls(a, b) ==
    a # b /\ nStarted = 2 /\ req[a].pc # "idle" /\ req[b].pc # "idle"

-----------------------------------------------------------------------------
(* Claims about the in-process fallback mapping, under Spec *)

\* no step removes a key from self._local_cache
LocalEntriesStay == \A k \in DOMAIN localCache : k \in DOMAIN localCache'

\* a call whose key was in self._local_cache when it read the cache got a
\* success envelope with non-null data, took the hit branch and returns cached true
LocalKeyHits ==
    \A r \in Reqs :
        (PastCacheGet(r) /\ req[r].localAtRead)
        => /\ Success(req[r].cached_response)
           /\ Get(req[r].cached_response, "data") # None
           /\ AnsweredHit(r)
           /\ ~(\E i \in DOMAIN req[r].trace : req[r].trace[i] = "generation")
           /\ req[r].pc = "done"
              => ~req[r].result.raised /\ req[r].result.value.cached

\* C31: entries of the in-process fallback mapping are permanent: no
\* operation removes a key cache_data stored there, every later
\* get_cached_data of the key returns success true with non-null data in
\* every state of the remote store, and every later handle_query with that
\* key returns cached true.
C31_LocalEntriesPermanent == [](LocalKeyHits) /\ [][LocalEntriesStay]_vars

\* C31 happens: a call returned cached true with the locally stored text
\* while the remote store has no entry for its key
C31_Witness ==
    \E r \in Reqs :
        /\ req[r].pc = "done" /\ req[r].localAtRead
        /\ remote[req[r].cache_key] = None
        /\ Get(req[r].cached_response, "storage") = "local"
        /\ req[r].result.value.cached
        /\ req[r].result.value.response = localCache[req[r].cache_key]

-----------------------------------------------------------------------------
(* SpecCache: cache_data and get_cached_data on a key under any behaviour   *)
(* of the toolbox, the remote entries' expiry, and for each key the last    *)
(* cache_data call made for it                                             *)

CacheValues == {"v1", "v2"}

\* await cache_data(key, value), noted as the latest write of key
TrackedCacheData(key, value, t) ==
    /\ remote' = RemoteAfterSet(remote, key, value, t)
    /\ localCache' = LocalAfterCacheData(localCache, key, value, t)
    /\ latestWrite' = [latestWrite EXCEPT ![key] =
                         [op |-> "cache_data", value |-> value,
                          remoteFailed |-> RemoteFails(RedisSetTool, t)]]
    /\ RecordOp([op |-> "cache_data", key |-> key, value |-> value,
                 remoteFailed |-> RemoteFails(RedisSetTool, t),
                 result |-> CacheData(key, value, t)])

\* await get_cached_data(key), with the latest write of key at that moment
TrackedGetCachedData(key, t) ==
    /\ UNCHANGED <<remote, localCache, latestWrite>>
    /\ RecordOp([op |-> "get_cached_data", key |-> key,
                 remoteFailed |-> RemoteFails(RedisGetTool, t),
                 remoteData |-> remote[key],
                 latest |-> latestWrite[key],
                 result |-> GetCachedData(key, localCache, remote, t)])

NextCache ==
    \/ \E key \in ProvKeys, value \in CacheValues, t \in Transports(RedisSetTool) :
          TrackedCacheData(key, value, t)
    \/ \E key \in ProvKeys, t \in Transports(RedisGetTool) : TrackedGetCachedData(key, t)
    \/ \E key \in ProvKeys : RemoteExpire(key)

SpecCache == InitProvider /\ [][NextCache]_vars

\* the last operation is a get_cached_data that returned success with data
ReadWithData ==
    /\ lastOp.op = "get_cached_data"
    /\ Success(lastOp.result)
    /\ Get(lastOp.result, "data") # None

\* C32 as stated: whenever get_cached_data(k) returns success with data, the
\* data is the value passed to the most recent completed cache_data(k, .).
C32_Original ==
    ReadWithData
    => /\ lastOp.latest.op = "cache_data"
       /\ lastOp.result.data = lastOp.latest.value

\* C32 amended: whenever get_cached_data(k) returns success with data, the
\* data is what the store that answered holds for k: the remote entry when
\* the remote get succeeds and the entry is there, otherwise the entry of the
\* in-process mapping, marked storage "local"; it is the value of the most
\* recent cache_data(k, .) when that call wrote to the store that answered -
\* its remote set succeeded and the read is answered remotely, or its remote
\* set failed and the read is answered from the mapping.
C32_ReadsLatestOfItsStore ==
    ReadWithData
    => /\ lastOp.latest.op = "cache_data"
       /\ IF ~lastOp.remoteFailed /\ lastOp.remoteData # None
          THEN /\ lastOp.result = [success |-> TRUE, data |-> lastOp.remoteData]
               /\ ~lastOp.latest.remoteFailed => lastOp.result.data = lastOp.latest.value
          ELSE /\ lastOp.result = [success |-> TRUE, data |-> localCache[lastOp.key],
                                   storage |-> "local"]
               /\ lastOp.latest.remoteFailed => lastOp.result.data = lastOp.latest.value

\* C32 happens: after v1 was written remotely and v2 locally during an outage,
\* a read during the outage returns v2, the latest write
C32_Witness ==
    /\ ReadWithData
    /\ lastOp.latest = [op |-> "cache_data", value |-> "v2", remoteFailed |-> TRUE]
    /\ remote[lastOp.key] = "v1"
    /\ lastOp.remoteFailed
    /\ lastOp.result = [success |-> TRUE, data |-> "v2", storage |-> "local"]

-----------------------------------------------------------------------------
(* Further claims about the conversation memory, under SpecMemory *)

\* C33: with ttl_seconds > 0, every non-empty memory bucket has an expiry set
\* whenever no append_message call is in progress, also after a call that
\* aborted because rpush succeeded and ltrim or expire raised (stated for
\* max_turns >= 1, max_turns = 0 being the subject of C34).
C33_NoBucketWithoutTtl ==
    (TtlSeconds > 0 /\ maxTurns >= 1)
    => \A s \in SessionKeys : bucket[s] # <<>> => hasTtl[s]

\* with max_turns = 0 a session whose append_message calls all returned holds no entry
ZeroTurnsKeepNothing ==
    \A s \in MemSessions :
        (maxTurns = 0 /\ nAborted[s] = 0) => Len(bucket[s]) <= 2 * 0

\* get_recent_messages called with limit = 0 returns no entries
ZeroLimitReadsNothing ==
    (lastRead.op = "get_recent_messages" /\ lastRead.limit = <<0>> /\ ~lastRead.outcome.raised)
    => lastRead.outcome.value = <<>>

\* C34: the zero edge cases respect the bounds: with max_turns = 0 the trim in
\* append_message leaves the bucket with at most 2*0 = 0 entries after every
\* append, and get_recent_messages called with limit = 0 returns no entries.
C34_ZeroEdgeCases == ZeroTurnsKeepNothing /\ ZeroLimitReadsNothing

====
